---- MODULE Spec2Model ----
(***************************************************************************)
(* Verification model of the reader service:                               *)
(*   - PuppeteerControl (page pool and the scrap generator),               *)
(*   - InterrogatorHost.chatWithReader (the multi-turn tool loop),         *)
(*   - DataCrunchingHost (the nightly page-cache cruncher).                *)
(* Each part has its own specification over the shared variable list; the  *)
(* variables of the other parts stay at their initial values.              *)
(***************************************************************************)
EXTENDS Integers, Naturals, Sequences, FiniteSets, TLC

VARIABLES
    \* ---- PuppeteerControl -------------------------------------------------
    poolMax,          \* pagePool option max
    status,           \* PuppeteerControl.status
    browserGen,       \* which launch this.browser refers to (0: none yet)
    browserConnected, \* browser.connected, for each browser launched
    pageSt,           \* page id -> life-cycle state inside generic-pool
    pageGen,          \* page id -> browser launch the page lives in (0: none)
    pageSeq,          \* number of pages whose creation was started
    waitingClients,   \* generic-pool's queue of pending acquire() calls
    pc,               \* scrap call -> position in the generator
    page,             \* scrap call -> page it holds (0: none)
    snapshot,         \* scrap call -> local `snapshot`
    finalized,        \* scrap call -> local `finalized`
    gotoPromise,      \* scrap call -> state of the navigation promise
    raceResult,       \* scrap call -> outcome of the pending Promise.race
    yielded,          \* scrap call -> items handed to the consumer so far
    snapSeq,          \* number of snapshots reported by all pages
    faults,           \* number of failures the environment has injected
    \* ---- InterrogatorHost.chatWithReader ------------------------------------
    maxAdditionalTurns,       \* request parameter
    functionCallingSupported, \* mdl.functionCallingSupported
    systemSupported,          \* mdl.systemSupported
    functionsMixin,           \* functionsMixin.functions is present
    clientFunctions,          \* options.functions was sent by the caller
    callRoundsLeft,
    keepLooping,
    tailMessages,
    messages,                 \* tail of thisOptions.messages of the last completion
    callerSystem,             \* whether the caller sent options.system
    system,                   \* thisOptions.system of the last completion, in parts
    waitList,                 \* keys of the calls whose promises are in waitList
    cpc,                      \* position of chatWithReader
    softwareFunctionCallingInAction,
    functionsAttached,        \* thisOptions.functions was set for this turn
    retStream,                \* state of the model's reply stream
    jsonParserStream,         \* state of the JSON parser/accumulation pair
    reply,                    \* what the model streams in this turn
    chunkIdx,                 \* chunks of the reply delivered so far
    calls,                    \* tool calls started and not yet forgotten
    turnEvents,               \* writes to sseStream made since the turn was opened
    sseEnded,                 \* sseStream.writableEnded
    execCount,                \* completions opened so far
    nStructured,              \* `structured` events written so far
    \* DataCrunchingHost
    store,                    \* number of Crawled records of each day of the window
    preexisting,              \* archive files in the bucket before the first run
    bucket,                   \* object storage: file name -> lines, or NoFile
    run,                      \* invocations of crunchPageCache so far
    theDay, counter,          \* locals of iterPageCacheCrunching
    crpc,                     \* position of crunchPageCache
    fileName, records,        \* the batch being crunched
    nextRecord,               \* next record the for loop starts
    task,                     \* state of each record task of the batch
    written,                  \* lines given to fileWriteStream.write, in order
    flushed,                  \* lines that have reached the temp file
    occupancy,                \* permits of the throttle that are taken
    nextDrainDeferred,        \* the deferred the local of that name refers to
    resolvedDeferreds,        \* the drain deferreds that have been resolved
    awaits,                   \* record task -> the deferred it awaits or awaited
    needDrain,                \* a write returned false and 'drain' is yet to fire
    parseFailures,            \* snapshots that failed to parse or format
    yields,                   \* batches yielded in this run
    sse,                      \* progress events written by crunchPageCache
    \* the process PuppeteerControl is constructed in
    freemem,                  \* os.freemem(), in bytes
    startFree,                \* os.freemem() as it was when the pool was constructed
    poolOptions,              \* options generic-pool was given (max 0: not yet)
    \* InterrogatorHost.expandMarkdown
    input,                    \* the markdown text, a sequence of characters
    files,                    \* names of the uploaded files
    mergedResult,             \* the chunks returned
    expanded,                 \* expandMarkdown has returned
    \* one RPC call of InterrogatorHost, from its parameters on
    rpcName,                  \* "interrogate" or "chatWithReader"
    params,                   \* the parameters as the caller sent them
    rpcAt,                    \* how far the call has got
    rpcLog,                   \* crawls and model calls made for it, in order
    \* the JSON parser and accumulation of one turn of chatWithReader
    jsonParser,               \* state of the parser/accumulation pair
    chunksFed,                \* pieces of the reply written to the parser so far
    snapshotData,             \* data of the last two `snapshot` events written
    \* the tool registry
    toolsLog                  \* calls made on the registry, each with what it returned

poolVars == <<poolMax, status, browserGen, browserConnected, pageSt, pageGen,
              pageSeq, waitingClients>>
scrapVars == <<pc, page, snapshot, finalized, gotoPromise, raceResult,
               yielded, snapSeq, faults>>

chatVars == <<maxAdditionalTurns, functionCallingSupported, systemSupported,
              functionsMixin, clientFunctions, callerSystem, callRoundsLeft, keepLooping,
              tailMessages, messages, system,
              waitList, cpc, softwareFunctionCallingInAction, functionsAttached,
              retStream, jsonParserStream, reply, chunkIdx, calls, turnEvents,
              sseEnded, execCount, nStructured>>

crunchVars == <<store, preexisting, bucket, run, theDay, counter, crpc, fileName,
               records, nextRecord, task, written, flushed, occupancy,
               nextDrainDeferred, resolvedDeferreds, awaits, needDrain,
               parseFailures, yields, sse>>

optionVars == <<freemem, startFree, poolOptions>>

\* the parts that are models of single functions and of request validation
expandVars == <<input, files, mergedResult, expanded>>
rpcVars == <<rpcName, params, rpcAt, rpcLog>>
jsonVars == <<jsonParser, chunksFed, snapshotData>>
toolVars == <<toolsLog>>
otherVars == <<optionVars, expandVars, rpcVars, jsonVars, toolVars>>

vars == <<poolVars, scrapVars, chatVars, crunchVars, otherVars>>

\* what the actions of one part leave alone
notPool == <<chatVars, crunchVars, otherVars>>
notChat == <<poolVars, scrapVars, crunchVars, otherVars>>
notCrunch == <<poolVars, scrapVars, chatVars, otherVars>>
notOptions == <<poolVars, scrapVars, chatVars, crunchVars, expandVars, rpcVars,
                jsonVars,
    toolVars>>
notExpand == <<poolVars, scrapVars, chatVars, crunchVars, optionVars, rpcVars,
               jsonVars,
    toolVars>>
notRpc == <<poolVars, scrapVars, chatVars, crunchVars, optionVars, expandVars,
            jsonVars,
    toolVars>>
notJson == <<poolVars, scrapVars, chatVars, crunchVars, optionVars, expandVars,
             rpcVars,
    toolVars>>
notTools == <<poolVars, scrapVars, chatVars, crunchVars, optionVars, expandVars,
              rpcVars, jsonVars>>

-----------------------------------------------------------------------------
(* Bounds of the model *)

NScrapers == 3
MaxPoolMax == 2
MaxReports == 1
MaxFaults == 1
MaxTurns == 2
MaxRecords == 3
MaxRuns == 2
MaxParseFailures == 1
MaxFreeMem == 60
MaxPieces == 5
MaxChunks == 8
MaxToolCalls == 2
MaxBatch == 4
\* pageCacheCrunchingBatchSize, scaled down
BatchSize == 2

(* Program constants *)

PoolMin == 1
\* the 1024 of the pool's max
Ki == 1024
\* countGPTToken(txt) <= 2048
TokenLimit == 2048
\* turns >= 0 && turns <= 50
TurnLimit == 50
\* maxAdditionalTurns: default: 5
DefaultTurns == 5
\* new PromiseThrottle(100), scaled down
ThrottleSize == 3
\* days between startingPoint and startOfToday (pageCacheCrunchingTMinus), scaled down
NDays == 2

Scrapers == 1..NScrapers
\* one create for each acquire and for min, and one more for each that may fail
MaxPages == NScrapers + PoolMin + MaxPoolMax * MaxFaults
Pages == 1..MaxPages
\* browsers ever launched, in launch order (every launch belongs to one create)
Browsers == 1..MaxPages

Min(a, b) == IF a < b THEN a ELSE b
Max(a, b) == IF a > b THEN a ELSE b

-----------------------------------------------------------------------------
(* generic-pool as configured by PuppeteerControl.pagePool *)

Undefined == [kind |-> "undefined", src |-> "none", id |-> 0]

PagesIn(states) == {p \in Pages : pageSt[p] \in states}

\* factory create operations in flight
Creating == PagesIn({"launch", "ctx"})
\* idle pages, oldest first (page ids are handed out in creation order)
Available == PagesIn({"idle"})
Loaned == PagesIn({"loaned"})
\* _allObjects.size + _factoryCreateOperations.size
PoolCount == Cardinality(Creating) + Cardinality(Available) + Cardinality(Loaned)

SpareResourceCapacityNoBound(count) == poolMax + 1 - count

\* generic-pool: max - (allObjects + createOperations)
SpareResourceCapacity(count) == poolMax - count

\* newPage() -> init(): the status test runs synchronously when the create starts
CreateEntry == IF status = "ready" THEN "ctx" ELSE "launch"

\* st with k new creates started (newPage() called k times)
StartCreates(st, k) ==
    [p \in Pages |-> IF p > pageSeq /\ p <= pageSeq + k THEN CreateEntry ELSE st[p]]

\* this.browser as the new creates find it: the browser their context is made in,
\* or, for a create that launches, the browser its init() closes first
CreateGens(gen, k) ==
    [p \in Pages |-> IF p > pageSeq /\ p <= pageSeq + k THEN browserGen ELSE gen[p]]

\* number of creates _dispense() starts for `waiting` pending acquires
DispenseCreates(waiting, count, allocable) ==
    IF waiting < 1 THEN 0
    ELSE Max(0, Min(SpareResourceCapacity(count), waiting - allocable))

\* _ensureMinimum(): creates started to bring the pool back to min
EnsureMinimum(count) == IF count < PoolMin THEN PoolMin - count ELSE 0

-----------------------------------------------------------------------------
(* PuppeteerControl.scrap *)

\* lines 159-172, run when pagePool.acquire() resolves with page p
ScrapBegin(s, p) ==
    /\ page' = [page EXCEPT ![s] = p]
    /\ snapshot' = [snapshot EXCEPT ![s] = Undefined]
    /\ finalized' = [finalized EXCEPT ![s] = FALSE]
    /\ gotoPromise' = [gotoPromise EXCEPT ![s] = "pending"]
    /\ raceResult' = [raceResult EXCEPT ![s] = "pending"]
    /\ pc' = [pc EXCEPT ![s] = "race"]

\* const page = await this.pagePool.acquire()
ScrapAcquire(s) ==
    /\ pc[s] = "init"
    /\ IF Available # {}
       THEN \* an idle page is dispatched at once
            LET p == CHOOSE q \in Available : \A r \in Available : q <= r IN
            /\ pageSt' = [pageSt EXCEPT ![p] = "loaned"]
            /\ ScrapBegin(s, p)
            /\ UNCHANGED <<waitingClients, pageSeq, pageGen>>
       ELSE LET w == Len(waitingClients) + 1
                k == DispenseCreates(w, PoolCount, Cardinality(Creating))
            IN
            /\ waitingClients' = Append(waitingClients, s)
            /\ pageSt' = StartCreates(pageSt, k)
            /\ pageGen' = CreateGens(pageGen, k)
            /\ pageSeq' = pageSeq + k
            /\ pc' = [pc EXCEPT ![s] = "acquire"]
            /\ UNCHANGED <<page, snapshot, finalized, gotoPromise, raceResult>>
    /\ UNCHANGED <<poolMax, status, browserGen, browserConnected, yielded,
                   snapSeq, faults>>
    /\ UNCHANGED notPool

\* init(): the browser found at entry has been closed, puppeteer.launch resolves,
\* this.browser is replaced and 'ready' emitted; the context is made in the new one
LaunchDone(p) ==
    /\ pageSt[p] = "launch"
    /\ browserGen' = browserGen + 1
    /\ browserConnected' =
           [g \in Browsers |-> IF g = browserGen + 1 THEN TRUE
                               ELSE IF g = pageGen[p] THEN FALSE
                               ELSE browserConnected[g]]
    /\ status' = "ready"
    /\ pageSt' = [pageSt EXCEPT ![p] = "ctx"]
    /\ pageGen' = [pageGen EXCEPT ![p] = browserGen + 1]
    /\ UNCHANGED <<poolMax, pageSeq, waitingClients, scrapVars>>
    /\ UNCHANGED notPool

\* init(): puppeteer.launch rejects after the browser found at entry was closed;
\* newPage() and the create reject, the pool drops the create and _dispense()
\* starts another one for a pending acquire, which stays in the queue
LaunchFail(p) ==
    /\ pageSt[p] = "launch"
    /\ faults < MaxFaults
    /\ faults' = faults + 1
    /\ browserConnected' =
           [g \in Browsers |-> IF g = pageGen[p] THEN FALSE ELSE browserConnected[g]]
    /\ status' = IF pageGen[p] # 0 /\ browserConnected[pageGen[p]] THEN "crippled"
                 ELSE status
    /\ LET k == DispenseCreates(Len(waitingClients), PoolCount - 1,
                                Cardinality(Creating) - 1)
       IN
       /\ pageSt' = StartCreates([pageSt EXCEPT ![p] = "failed"], k)
       /\ pageGen' = CreateGens([pageGen EXCEPT ![p] = 0], k)
       /\ pageSeq' = pageSeq + k
    /\ UNCHANGED <<poolMax, browserGen, waitingClients, pc, page, snapshot,
                   finalized, gotoPromise, raceResult, yielded, snapSeq>>
    /\ UNCHANGED notPool

\* newPage() finishes: the page joins the pool and _dispense() hands it out
NewPageDone(p) ==
    /\ pageSt[p] = "ctx"
    /\ browserConnected[pageGen[p]]
    /\ IF waitingClients # <<>>
       THEN LET s == Head(waitingClients) IN
            /\ waitingClients' = Tail(waitingClients)
            /\ pageSt' = [pageSt EXCEPT ![p] = "loaned"]
            /\ ScrapBegin(s, p)
       ELSE /\ pageSt' = [pageSt EXCEPT ![p] = "idle"]
            /\ UNCHANGED <<waitingClients, page, snapshot, finalized,
                           gotoPromise, raceResult, pc>>
    /\ UNCHANGED <<poolMax, status, browserGen, browserConnected, pageGen,
                   pageSeq, yielded, snapSeq, faults>>
    /\ UNCHANGED notPool

\* newPage() rejects, its browser being gone: the pool drops the create and
\* _dispense() starts another one for a pending acquire
NewPageFail(p) ==
    /\ pageSt[p] = "ctx"
    /\ ~browserConnected[pageGen[p]]
    /\ LET k == DispenseCreates(Len(waitingClients), PoolCount - 1,
                                Cardinality(Creating) - 1)
       IN
       /\ pageSt' = StartCreates([pageSt EXCEPT ![p] = "failed"], k)
       /\ pageGen' = CreateGens([pageGen EXCEPT ![p] = 0], k)
       /\ pageSeq' = pageSeq + k
    /\ UNCHANGED <<poolMax, status, browserGen, browserConnected,
                   waitingClients, scrapVars>>
    /\ UNCHANGED notPool

\* a browser emits 'disconnected' -> emit('crippled')
BrowserDisconnected(g) ==
    /\ browserConnected[g]
    /\ faults < MaxFaults
    /\ faults' = faults + 1
    /\ browserConnected' = [browserConnected EXCEPT ![g] = FALSE]
    /\ status' = "crippled"
    /\ UNCHANGED <<poolMax, browserGen, pageSt, pageGen, pageSeq,
                   waitingClients, pc, page, snapshot, finalized, gotoPromise,
                   raceResult, yielded, snapSeq>>
    /\ UNCHANGED notPool

\* the environment injects one more failure (a rejected promise, a lost browser)
Fault == faults < MaxFaults /\ faults' = faults + 1

\* a finally block that would give the page back to the pool for the next acquire
ScrapFinallyRelease(s, end) ==
    /\ pageSt' = [pageSt EXCEPT ![page[s]] = "idle"]
    /\ pc' = [pc EXCEPT ![s] = end]
    /\ page' = [page EXCEPT ![s] = 0]
    /\ snapshot' = [snapshot EXCEPT ![s] = Undefined]
    /\ finalized' = [finalized EXCEPT ![s] = FALSE]
    /\ raceResult' = [raceResult EXCEPT ![s] = "none"]
    /\ UNCHANGED <<poolMax, status, browserGen, browserConnected, pageGen, pageSeq,
                   waitingClients>>

\* a finally block that would take the handler off but leave the page in the pool
ScrapFinallyLeak(s, end) ==
    /\ pc' = [pc EXCEPT ![s] = end]
    /\ page' = [page EXCEPT ![s] = 0]
    /\ snapshot' = [snapshot EXCEPT ![s] = Undefined]
    /\ finalized' = [finalized EXCEPT ![s] = FALSE]
    /\ raceResult' = [raceResult EXCEPT ![s] = "none"]
    /\ UNCHANGED <<poolVars>>

\* finally { page.off('snapshot', hdl); await this.pagePool.destroy(page) }
\* (the locals of the finished generator are dropped; `end` records whether it ran to
\* its end, "done", or was closed by its consumer, "returned")
ScrapFinally(s, end) ==
    LET st1 == [pageSt EXCEPT ![page[s]] = "destroyed"]
        count1 == PoolCount - 1
        e == EnsureMinimum(count1)
        d == DispenseCreates(Len(waitingClients), count1 + e,
                             Cardinality(Creating) + Cardinality(Available) + e)
    IN
    /\ pageSt' = StartCreates(st1, e + d)
    /\ pageGen' = CreateGens([pageGen EXCEPT ![page[s]] = 0], e + d)
    /\ pageSeq' = pageSeq + e + d
    /\ pc' = [pc EXCEPT ![s] = end]
    /\ page' = [page EXCEPT ![s] = 0]
    /\ snapshot' = [snapshot EXCEPT ![s] = Undefined]
    /\ finalized' = [finalized EXCEPT ![s] = FALSE]
    /\ raceResult' = [raceResult EXCEPT ![s] = "none"]
    /\ UNCHANGED <<poolMax, status, browserGen, browserConnected,
                   waitingClients>>

\* values compared with === : every report crosses the page bridge as a fresh
\* object, null is the one value that is identical to itself
SameIdentity(a, b) == IF a.kind = "null" /\ b.kind = "null" THEN TRUE ELSE a = b

HandlerInstalled(s) == pc[s] \in {"race", "screenshot", "evaluate", "yield", "yieldFinal"}

\* hdl: page.on('snapshot', ...) receives what the page passed to reportSnapshot
ReportSnapshot(s, kind) ==
    /\ HandlerInstalled(s)
    /\ snapSeq < MaxReports
    /\ snapSeq' = snapSeq + 1
    /\ LET v == [kind |-> kind, src |-> "report",
                 id |-> IF kind = "null" THEN 0 ELSE snapSeq + 1]
       IN
       IF SameIdentity(snapshot[s], v)
       THEN UNCHANGED <<snapshot, raceResult>>
       ELSE /\ snapshot' = [snapshot EXCEPT ![s] = v]
            \* nextSnapshotDeferred.resolve(s); nextSnapshotDeferred = Defer()
            /\ raceResult' = [raceResult EXCEPT ![s] =
                                 IF pc[s] = "race" /\ @ = "pending" THEN "ok" ELSE @]
    /\ UNCHANGED <<poolVars, pc, page, finalized, gotoPromise, yielded, faults>>
    /\ UNCHANGED notPool

\* page.goto(...) settles; gotoPromise.finally(() => finalized = true)
GotoSettle(s, how) ==
    /\ HandlerInstalled(s)
    /\ gotoPromise[s] = "pending"
    /\ gotoPromise' = [gotoPromise EXCEPT ![s] = how]
    /\ finalized' = [finalized EXCEPT ![s] = TRUE]
    /\ raceResult' = [raceResult EXCEPT ![s] =
                         IF pc[s] = "race" /\ @ = "pending"
                         THEN (IF how = "resolved" THEN "ok" ELSE "err") ELSE @]
    /\ UNCHANGED <<poolVars, pc, page, snapshot, yielded, snapSeq>>
    /\ UNCHANGED notPool

GotoResolve(s) == GotoSettle(s, "resolved") /\ UNCHANGED faults
\* navigation timeout (30 s) or a crashed context
GotoReject(s) == GotoSettle(s, "rejected") /\ Fault

\* await Promise.race([nextSnapshotDeferred.promise, gotoPromise]) resumes
RaceResume(s) ==
    /\ pc[s] = "race"
    /\ raceResult[s] = "ok"
    /\ pc' = [pc EXCEPT ![s] = "screenshot"]
    /\ raceResult' = [raceResult EXCEPT ![s] = "none"]
    /\ UNCHANGED <<poolVars, page, snapshot, finalized, gotoPromise, yielded,
                   snapSeq, faults>>
    /\ UNCHANGED notPool

\* the race rejects (navigation failed first): catch, then finally
RaceThrow(s) ==
    /\ pc[s] = "race"
    /\ raceResult[s] = "err"
    /\ ScrapFinally(s, "done")
    /\ UNCHANGED <<gotoPromise, yielded, snapSeq, faults>>
    /\ UNCHANGED notPool

\* const screenshot = await page.screenshot(); if (finalized) {...} yield
Screenshot(s) ==
    /\ pc[s] = "screenshot"
    /\ IF finalized[s]
       THEN IF gotoPromise[s] = "rejected"
            THEN \* await gotoPromise throws
                 /\ ScrapFinally(s, "done")
                 /\ UNCHANGED yielded
            ELSE /\ pc' = [pc EXCEPT ![s] = "evaluate"]
                 /\ UNCHANGED <<poolVars, page, yielded, snapshot, finalized,
                                raceResult>>
       ELSE /\ yielded' = [yielded EXCEPT ![s] = Append(@, snapshot[s])]
            /\ pc' = [pc EXCEPT ![s] = "yield"]
            /\ UNCHANGED <<poolVars, page, snapshot, finalized, raceResult>>
    /\ UNCHANGED <<gotoPromise, snapSeq, faults>>
    /\ UNCHANGED notPool

\* page.screenshot() rejects: catch, then finally
ScreenshotThrow(s) ==
    /\ pc[s] = "screenshot"
    /\ Fault
    /\ ScrapFinally(s, "done")
    /\ UNCHANGED <<gotoPromise, yielded, snapSeq>>
    /\ UNCHANGED notPool

\* snapshot = await page.evaluate('new Readability(...).parse()'); yield (final)
Evaluate(s, kind) ==
    /\ pc[s] = "evaluate"
    /\ LET v == [kind |-> kind, src |-> "final", id |-> 0] IN
       /\ snapshot' = [snapshot EXCEPT ![s] = v]
       /\ yielded' = [yielded EXCEPT ![s] = Append(@, v)]
    /\ pc' = [pc EXCEPT ![s] = "yieldFinal"]
    /\ UNCHANGED <<poolVars, page, finalized, gotoPromise, raceResult, snapSeq,
                   faults>>
    /\ UNCHANGED notPool

\* page.evaluate rejects: catch, then finally
EvaluateThrow(s) ==
    /\ pc[s] = "evaluate"
    /\ Fault
    /\ ScrapFinally(s, "done")
    /\ UNCHANGED <<gotoPromise, yielded, snapSeq>>
    /\ UNCHANGED notPool

\* a generator that would wait for the next snapshot only
ConsumerNextAwaitsSnapshot(s) ==
    /\ \/ /\ pc[s] = "yield"
          /\ pc' = [pc EXCEPT ![s] = "race"]
          /\ raceResult' = [raceResult EXCEPT ![s] = "pending"]
          /\ UNCHANGED <<poolVars, page, snapshot, finalized>>
       \/ /\ pc[s] = "yieldFinal"
          /\ ScrapFinally(s, "done")
    /\ UNCHANGED <<gotoPromise, yielded, snapSeq, faults>>
    /\ UNCHANGED notPool

\* the consumer asks for the next item: the generator resumes after its yield
ConsumerNext(s) ==
    /\ \/ /\ pc[s] = "yield"
          /\ pc' = [pc EXCEPT ![s] = "race"]
          /\ raceResult' = [raceResult EXCEPT ![s] =
                               CASE gotoPromise[s] = "resolved" -> "ok"
                                 [] gotoPromise[s] = "rejected" -> "err"
                                 [] OTHER -> "pending"]
          /\ UNCHANGED <<poolVars, page, snapshot, finalized>>
       \/ /\ pc[s] = "yieldFinal"
          \* break; finally
          /\ ScrapFinally(s, "done")
    /\ UNCHANGED <<gotoPromise, yielded, snapSeq, faults>>
    /\ UNCHANGED notPool

\* the consumer stops early (return() or throw() at a yield): catch/finally
ConsumerAbort(s) ==
    /\ pc[s] \in {"yield", "yieldFinal"}
    /\ Fault
    /\ ScrapFinally(s, "returned")
    /\ UNCHANGED <<gotoPromise, yielded, snapSeq>>
    /\ UNCHANGED notPool

SnapshotKinds == {"object", "null"}

PoolStart(maxes) ==
    /\ poolMax \in maxes
    /\ status = "init"
    /\ browserGen = 0
    /\ browserConnected = [g \in Browsers |-> FALSE]
    \* autostart: _ensureMinimum() has begun creating min pages
    /\ pageSt = [p \in Pages |-> IF p <= PoolMin THEN "launch" ELSE "unborn"]
    /\ pageGen = [p \in Pages |-> 0]
    /\ pageSeq = PoolMin
    /\ waitingClients = <<>>
    /\ pc = [s \in Scrapers |-> "init"]
    /\ page = [s \in Scrapers |-> 0]
    /\ snapshot = [s \in Scrapers |-> Undefined]
    /\ finalized = [s \in Scrapers |-> FALSE]
    /\ gotoPromise = [s \in Scrapers |-> "none"]
    /\ raceResult = [s \in Scrapers |-> "none"]
    /\ yielded = [s \in Scrapers |-> <<>>]
    /\ snapSeq = 0
    /\ faults = 0

-----------------------------------------------------------------------------
(* InteractiveOptimizerFunctionsRegistry2 and ReaderAsLLMTools *)

\* a registry whose search tool would go by another name
ConfRenamed == <<"browse", "searchWeb">>

\* this.conf: the methods registered by @oFn.Method, in the order of the class
Conf == <<"browse", "searchTheWeb">>

\* names a caller can put in a whitelist, a pin or a tool call
ToolNames == {"browse", "searchTheWeb", "searchWeb", "summarize"}

\* a whitelist is absent or an array of names
NoWhitelist == [given |-> FALSE, names |-> <<>>]
Whitelist(names) == [given |-> TRUE, names |-> names]
Whitelists ==
    {NoWhitelist} \cup
    {Whitelist(w) : w \in {<<>>, <<"browse">>, <<"searchTheWeb", "browse">>,
                           <<"searchWeb">>, <<"summarize", "searchTheWeb">>}}

Includes(names, name) == \E i \in DOMAIN names : names[i] = name

\* {name: k, description: v.desc, parameters: schema of v}
Descriptor(k) == [name |-> k, description |-> <<"desc", k>>, parameters |-> <<"schema", k>>]

\* getFunctionsCallingDescriptors(whitelist)
GetFunctionsCallingDescriptors(wl) ==
    LET final == [i \in DOMAIN Conf |-> Descriptor(Conf[i])]
    IN IF ~wl.given THEN final
       ELSE SelectSeq(final, LAMBDA x : Includes(wl.names, x.name))

\* options.function_call: absent, the string 'none' or 'auto', or {name}
FunctionCall(kind, name) == [kind |-> kind, name |-> name]
FunctionCalls ==
    {FunctionCall(k, "") : k \in {"absent", "none", "auto"}}
        \cup {FunctionCall("pin", n) : n \in ToolNames}

\* the options of a completion: function_call, and the rest (system, messages, ...)
CallOptions == [function_call : FunctionCalls, rest : {"r1", "r2"}]
NoCallOptions == [function_call |-> FunctionCall("absent", ""), rest |-> "r1"]

\* the template literal of the prompt: the fixed text around the descriptor JSON,
\* and the last sentence, which names the enforced tool or leaves the choice
SystemPrompt(descriptors, enforce) ==
    [text |-> "Being a smart assistant ... Rules ...",
     descriptors |-> descriptors,
     clause |-> IF enforce # "" THEN "you MUST invoke the tool named"
                ELSE "perfectly fine if you choose to not invoke any tool",
     enforce |-> enforce,
     more |-> ""]

\* a prompt that would carry the caller's own options along
SystemPromptWithOptions(o, descriptors, enforce) ==
    [SystemPrompt(descriptors, enforce) EXCEPT !.more = o.rest]

\* the prompt built for the options o
SystemPromptOf(o, descriptors, enforce) == SystemPrompt(descriptors, enforce)

\* return {}
NoMixin == [given |-> FALSE, system |-> SystemPrompt(<<>>, ""), functions |-> <<>>]

\* getPromptMixin(callOptions, whitelist)
GetPromptMixin(o, wl) ==
    IF ~wl.given THEN NoMixin
    ELSE IF o.function_call.kind = "none" THEN NoMixin
    ELSE LET descriptors == GetFunctionsCallingDescriptors(wl)
             pinned == o.function_call.kind = "pin" /\ o.function_call.name # ""
             found == SelectSeq(descriptors, LAMBDA x : x.name = o.function_call.name)
         IN IF pinned
            THEN (IF found = <<>> THEN NoMixin
                  ELSE [given |-> TRUE,
                        system |-> SystemPromptOf(o, <<found[1]>>, found[1].name),
                        functions |-> <<found[1]>>])
            ELSE [given |-> TRUE,
                  system |-> SystemPromptOf(o, descriptors, ""),
                  functions |-> descriptors]

\* arguments of a tool call: absent or given
ToolArgs == {"", "given"}

Threw(why) == [threw |-> TRUE, kind |-> why, fields |-> {}]
Returned(kind, fields) == [threw |-> FALSE, kind |-> kind, fields |-> fields]

\* the method a call is dispatched to, and what it returns or throws
ExecTool(name, arg) ==
    CASE ~Includes(Conf, name) -> Threw("no such method")
      [] arg = "" -> Threw("is required")
      [] name = "browse" -> Returned("formattedPage.content", {"markdown"})
      [] OTHER -> Returned("results", {"url", "title", "description"})

\* one call on the registry and what it returned
Logged(op, wl, o, name, arg) ==
    /\ Len(toolsLog) < MaxToolCalls
    /\ toolsLog' = Append(toolsLog,
           [op |-> op, whitelist |-> wl, options |-> o, name |-> name, arg |-> arg,
            descriptors |-> GetFunctionsCallingDescriptors(wl),
            mixin |-> GetPromptMixin(o, wl),
            ret |-> ExecTool(name, arg)])
    /\ UNCHANGED notTools

DescriptorsCall(wl) == Logged("descriptors", wl, NoCallOptions, "", "")

PromptMixinCall(o, wl) == Logged("mixin", wl, o, "", "")

ToolExec(name, arg) == Logged("exec", NoWhitelist, NoCallOptions, name, arg)

ToolsStart == toolsLog = <<>>

-----------------------------------------------------------------------------
(* InterrogatorHost.chatWithReader *)

NoId == ""

\* tool calls the model may ask for: {name, arguments, id}
ToolBrowse == [name |-> "browse", id |-> "T1", args |-> "object"]
\* a call without id
ToolSearch == [name |-> "searchTheWeb", id |-> NoId, args |-> "object"]
\* a call whose arguments string does not parse
ToolBad == [name |-> "browse", id |-> "T2", args |-> "unparsable"]
\* an entry without a name
ToolNameless == [name |-> "", id |-> NoId, args |-> "object"]

ToolLists ==
    {<<ToolBrowse>>, <<ToolSearch, ToolBrowse>>, <<ToolBad, ToolNameless, ToolSearch>>}

NoReply == [kind |-> "none", tools |-> <<>>]

\* what a model may stream in one turn: plain text, a JSON object (after some
\* preamble, followed by a second object), the USE_TOOLS envelope, or, when it
\* was offered functions it can call natively, text or a JSON object and function
\* calls
Replies(native) ==
    {[kind |-> "text", tools |-> <<>>], [kind |-> "object", tools |-> <<>>]}
        \cup {[kind |-> "envelope", tools |-> t] : t \in ToolLists}
        \cup (IF native
              THEN {[kind |-> "native", tools |-> t] : t \in ToolLists}
                       \cup {[kind |-> "nativeObject", tools |-> <<ToolBrowse>>]}
              ELSE {})

\* what the reply stream emits, in order: 'data' chunks by what they hold for the
\* JSON parser, and 'call' events
Script(r) ==
    CASE r.kind = "text" -> <<"text">>
      [] r.kind = "object" -> <<"text", "brace", "brace">>
      [] r.kind = "envelope" -> <<"brace", "grow">>
      [] r.kind = "native" -> <<"text">> \o [i \in 1..Len(r.tools) |-> "call"]
      [] r.kind = "nativeObject" -> <<"brace">> \o [i \in 1..Len(r.tools) |-> "call"]
      [] OTHER -> <<>>

\* 'call' events among the first n emissions of the reply
Called(r, n) == Cardinality({i \in 1..n : Script(r)[i] = "call"})

\* top-level objects opened by the first n chunks of the reply
Opened(r, n) == Cardinality({i \in 1..n : Script(r)[i] = "brace"})

\* one sseStream.write(...): `of` is the turn the written thing belongs to, `turn`
\* the turn running when it is written, `late` whether the stream had been ended
EventOf(e, role, name, id, of) ==
    [event |-> e, role |-> role, name |-> name, id |-> id, of |-> of,
     turn |-> execCount, late |-> sseEnded]

Event(e) == EventOf(e, "", "", NoId, execCount)

\* a loop that would run one round too many
LoopCondOffByOne == keepLooping /\ callRoundsLeft >= 0

\* while (keepLooping && callRoundsLeft > 0)
LoopCond == keepLooping /\ callRoundsLeft > 0

\* functions offered in the last round too
AttachFunctionsAlways == functionsMixin /\ callRoundsLeft > 0

\* if (functionsMixin.functions && callRoundsLeft > 1)
AttachFunctions == functionsMixin /\ callRoundsLeft > 1

\* the settings of one call, which no step changes
chatConfig == <<maxAdditionalTurns, functionCallingSupported, systemSupported,
                functionsMixin, clientFunctions, callerSystem>>

\* `${functionsMixin.system}` in a template string: the teaching prompt of the
\* mixin, or the text of the missing value
MixinSystem == IF functionsMixin THEN "teaching" ELSE "undefined"

\* lines 678-680: options.system once the loop is entered, as the list of its
\* parts ("own" is the text the caller sent)
OptionsSystem ==
    LET own == IF callerSystem THEN <<"own">> ELSE <<>>
    IN IF ~functionCallingSupported THEN Append(own, MixinSystem) ELSE own

\* lines 694-700: thisOptions.system of the turn about to open
ThisSystem ==
    IF AttachFunctions /\ ~functionCallingSupported /\ systemSupported
    THEN Append(OptionsSystem, MixinSystem)
    ELSE OptionsSystem

\* a turn that would send the newest history item only
ThisMessagesLastOnly ==
    IF tailMessages = <<>> THEN <<>> ELSE <<tailMessages[Len(tailMessages)]>>

\* line 702: thisOptions.messages = [...trimmedMessages, ...tailMessages], after
\* the trimmed base messages of line 689
ThisMessages == tailMessages

\* lines 692-705: one more completion is opened
ModelExec ==
    /\ cpc = "loop"
    /\ LoopCond
    /\ functionsAttached' = AttachFunctions
    /\ softwareFunctionCallingInAction' =
           (AttachFunctions /\ ~functionCallingSupported /\ systemSupported)
    /\ system' = ThisSystem
    /\ messages' = ThisMessages
    /\ callRoundsLeft' = callRoundsLeft - 1
    /\ execCount' = execCount + 1
    \* thisOptions = { ...options }: functions the caller sent are offered too
    /\ \E r \in Replies(functionCallingSupported /\ (AttachFunctions \/ clientFunctions)) :
          reply' = r
    /\ chunkIdx' = 0
    /\ retStream' = "open"
    /\ jsonParserStream' = "open"
    \* settled promises of earlier turns are of no further use
    /\ calls' = SelectSeq(calls, LAMBDA c : c.st = "running")
    /\ turnEvents' = <<>>
    /\ cpc' = "stream"
    /\ UNCHANGED <<chatConfig, keepLooping, tailMessages, waitList, sseEnded,
                   nStructured>>
    /\ UNCHANGED notChat

\* the loop is left: sseStream.end(); return sseStream
LoopExit ==
    /\ cpc = "loop"
    /\ ~LoopCond
    /\ sseEnded' = TRUE
    /\ cpc' = "ended"
    /\ UNCHANGED <<chatConfig, callRoundsLeft, keepLooping, tailMessages,
                   messages, system, waitList, softwareFunctionCallingInAction,
                   functionsAttached, retStream, jsonParserStream, reply, chunkIdx,
                   calls, turnEvents, execCount, nStructured>>
    /\ UNCHANGED notChat

\* what one chunk makes the handlers write: the parser sees the chunk first (n1/n2
\* at the first/second top-level object), then `chunk` is written, and the
\* accumulation reports a snapshot while the first object grows
ChunkEvents(tok, before) ==
    CASE tok = "brace" /\ before = 0 -> <<Event("n1"), Event("chunk"), Event("snapshot")>>
      [] tok = "brace" /\ before = 1 -> <<Event("n2"), Event("chunk")>>
      [] tok = "grow" -> <<Event("chunk"), Event("snapshot")>>
      [] OTHER -> <<Event("chunk")>>

\* retStream.on('data')
StreamData ==
    /\ retStream = "open"
    /\ chunkIdx < Len(Script(reply))
    /\ Script(reply)[chunkIdx + 1] # "call"
    /\ chunkIdx' = chunkIdx + 1
    /\ turnEvents' = turnEvents \o
           ChunkEvents(Script(reply)[chunkIdx + 1], Opened(reply, chunkIdx))
    /\ UNCHANGED <<chatConfig, callRoundsLeft, keepLooping, tailMessages,
                   messages, system, waitList, cpc, softwareFunctionCallingInAction,
                   functionsAttached, retStream, jsonParserStream, reply, calls,
                   sseEnded, execCount, nStructured>>
    /\ UNCHANGED notChat

\* historyItem of a finished call (lines 831-839), made for a call of turn `of`
HistoryItem(name, id, content, of) ==
    IF id # NoId
    THEN [role |-> "tool", name |-> "", id |-> id, content |-> content, turn |-> of]
    ELSE [role |-> "function", name |-> name, id |-> NoId, content |-> content,
          turn |-> of]

\* a failure that would leave no trace in the history
FailureHistoryDropped(tail, item) == tail

\* catch (err) { result = `${err}` } ... tailMessages.push(historyItem)
FailureHistory(tail, item) == Append(tail, item)

\* a key for one more promise of waitList
FreshKey(cs) ==
    LET keys == {cs[i].key : i \in DOMAIN cs}
    IN IF keys = {} THEN 1 ELSE 1 + (CHOOSE k \in keys : \A j \in keys : j <= k)

\* retStream.on('call') for the calls ps, in order (lines 789-849), each up to its
\* first await; acc is <<calls, waitList, tailMessages, events written>>
RECURSIVE CallHandlers(_, _)
CallHandlers(ps, acc) ==
    IF ps = <<>> THEN acc
    ELSE LET p == Head(ps)
             key == FreshKey(acc.calls)
             item == HistoryItem(p.name, p.id, "error", execCount)
             entry(st) == [key |-> key, name |-> p.name, id |-> p.id,
                           turn |-> execCount, st |-> st]
         IN
         IF p.name = "" THEN CallHandlers(Tail(ps), acc)
         ELSE IF p.args = "unparsable"
         THEN \* parseJSON throws before `call` is written
              CallHandlers(Tail(ps),
                  [calls |-> Append(acc.calls, entry("failed")),
                   waitList |-> Append(acc.waitList, key),
                   tail |-> FailureHistory(acc.tail, item),
                   events |-> Append(acc.events,
                                  EventOf("injectHistory", item.role, item.name,
                                          item.id, execCount))])
         ELSE CallHandlers(Tail(ps),
                  [calls |-> Append(acc.calls, entry("running")),
                   waitList |-> Append(acc.waitList, key),
                   tail |-> acc.tail,
                   events |-> acc.events \o
                                  <<EventOf("call", "", p.name, p.id, execCount),
                                    EventOf("text", "", p.name, p.id, execCount)>>])

EmitCalls(ps) ==
    CallHandlers(ps, [calls |-> calls, waitList |-> waitList,
                      tail |-> tailMessages, events |-> <<>>])

\* a model with native function calling emits 'call' on the reply stream
StreamCall ==
    /\ retStream = "open"
    /\ chunkIdx < Len(Script(reply))
    /\ Script(reply)[chunkIdx + 1] = "call"
    /\ chunkIdx' = chunkIdx + 1
    /\ LET r == EmitCalls(<<reply.tools[Called(reply, chunkIdx) + 1]>>) IN
         /\ calls' = r.calls
         /\ waitList' = r.waitList
         /\ tailMessages' = r.tail
         /\ turnEvents' = turnEvents \o r.events
    /\ UNCHANGED <<chatConfig, callRoundsLeft, keepLooping, messages, system, cpc,
                   softwareFunctionCallingInAction, functionsAttached, retStream,
                   jsonParserStream, reply, sseEnded, execCount, nStructured>>
    /\ UNCHANGED notChat

\* the two writes in the opposite order
SettleEventsInjectFirst(c, item, ok) ==
    <<EventOf("injectHistory", item.role, item.name, item.id, c.turn)>>
        \o (IF ok THEN <<EventOf("return", "", c.name, c.id, c.turn)>> ELSE <<>>)

\* what the promise of call c writes once exec has settled: `return` unless exec
\* threw, then injectHistory with the history item
SettleEvents(c, item, ok) ==
    (IF ok THEN <<EventOf("return", "", c.name, c.id, c.turn)>> ELSE <<>>)
        \o <<EventOf("injectHistory", item.role, item.name, item.id, c.turn)>>

\* lines 813-846: llmToolsRegistry.exec settles for the i-th promise
ToolSettle(i, ok) ==
    /\ i \in DOMAIN calls
    /\ calls[i].st = "running"
    /\ LET c == calls[i]
           item == HistoryItem(c.name, c.id, IF ok THEN "result" ELSE "error", c.turn)
       IN
       /\ calls' = [calls EXCEPT ![i].st = IF ok THEN "returned" ELSE "failed"]
       /\ tailMessages' = IF ok THEN Append(tailMessages, item)
                          ELSE FailureHistory(tailMessages, item)
       /\ turnEvents' = turnEvents \o SettleEvents(c, item, ok)
    /\ UNCHANGED <<chatConfig, callRoundsLeft, keepLooping, messages, system, waitList,
                   cpc, softwareFunctionCallingInAction, functionsAttached,
                   retStream, jsonParserStream, reply, chunkIdx, sseEnded,
                   execCount, nStructured>>
    /\ UNCHANGED notChat

ToolReturn(i) == ToolSettle(i, TRUE)
ToolThrow(i) == ToolSettle(i, FALSE)

\* retStream 'end': jsonParserStream.end()
StreamEnd ==
    /\ retStream = "open"
    /\ chunkIdx = Len(Script(reply))
    /\ retStream' = "ended"
    /\ jsonParserStream' = "flushing"
    /\ UNCHANGED <<chatConfig, callRoundsLeft, keepLooping, tailMessages,
                   messages, system, waitList, cpc, softwareFunctionCallingInAction,
                   functionsAttached, reply, chunkIdx, calls, turnEvents, sseEnded,
                   execCount, nStructured>>
    /\ UNCHANGED notChat

\* a final handler that would dispatch the envelope whatever the turn's flag says
UseToolsWithoutFlag(object) ==
    object /\ reply.kind = "envelope" /\ chunkIdx = Len(Script(reply))

\* lines 740-751: final.intention === 'USE_TOOLS', final.tools is an array and
\* softwareFunctionCallingInAction
UseTools(object) ==
    /\ object
    /\ reply.kind = "envelope"
    /\ chunkIdx = Len(Script(reply))
    /\ softwareFunctionCallingInAction

AssistantItem(content) ==
    [role |-> "assistant", name |-> "", id |-> NoId, content |-> content,
     turn |-> execCount]

\* jsonAccumulationStream.once('final') (lines 736-757) for what the parser holds
\* when its input ends: what is written, and the calls it starts
FinalHandler ==
    LET object == Opened(reply, chunkIdx) >= 1
        useTools == UseTools(object)
        r == CallHandlers(reply.tools,
                 [calls |-> calls, waitList |-> waitList,
                  tail |-> Append(tailMessages, AssistantItem("final")),
                  events |-> <<>>])
    IN [events |-> (IF object THEN <<Event("structured")>> ELSE <<>>)
                       \o (IF useTools THEN r.events ELSE <<>>),
        structured |-> IF object THEN 1 ELSE 0,
        calls |-> IF useTools THEN r.calls ELSE calls,
        waitList |-> IF useTools THEN r.waitList ELSE waitList,
        tail |-> IF useTools THEN r.tail ELSE tailMessages]

\* the parser has flushed: 'final', then 'close' of the accumulation stream
ParserFinal ==
    /\ jsonParserStream = "flushing"
    /\ jsonParserStream' = "closed"
    /\ nStructured' = nStructured + FinalHandler.structured
    /\ turnEvents' = turnEvents \o FinalHandler.events
    /\ calls' = FinalHandler.calls
    /\ waitList' = FinalHandler.waitList
    /\ tailMessages' = FinalHandler.tail
    /\ UNCHANGED <<chatConfig, callRoundsLeft, keepLooping, messages, system, cpc,
                   softwareFunctionCallingInAction, functionsAttached, retStream,
                   reply, chunkIdx, sseEnded, execCount>>
    /\ UNCHANGED notChat

\* retStream.once('error') (lines 851-860); the pending once(retStream, 'close')
\* rejects, so the await of line 862 throws out of chatWithReader.
\* jsonParserStream.end() either delivers 'final' at once, before the error frame
\* is written (flushNow), or on a later tick
StreamError(flushNow) ==
    /\ retStream = "open"
    /\ retStream' = "errored"
    /\ keepLooping' = FALSE
    /\ IF flushNow
       THEN /\ jsonParserStream' = "closed"
            /\ nStructured' = nStructured + FinalHandler.structured
            /\ turnEvents' = (turnEvents \o FinalHandler.events)
                                 \o (IF sseEnded THEN <<>> ELSE <<Event("error")>>)
            /\ calls' = FinalHandler.calls
            /\ waitList' = FinalHandler.waitList
            /\ tailMessages' = FinalHandler.tail
       ELSE /\ jsonParserStream' = "flushing"
            /\ turnEvents' = turnEvents \o (IF sseEnded THEN <<>> ELSE <<Event("error")>>)
            /\ UNCHANGED <<nStructured, calls, waitList, tailMessages>>
    /\ sseEnded' = TRUE
    /\ cpc' = "thrown"
    /\ UNCHANGED <<chatConfig, callRoundsLeft, messages, system,
                   softwareFunctionCallingInAction, functionsAttached, reply,
                   chunkIdx, execCount>>
    /\ UNCHANGED notChat

\* lines 862-885: both streams have closed
TurnEnd ==
    /\ cpc = "stream"
    /\ retStream = "ended"
    /\ jsonParserStream = "closed"
    /\ LET keep == keepLooping /\ waitList # <<>>
           history == AssistantItem("resp")
       IN
       /\ keepLooping' = keep
       /\ tailMessages' = IF keep /\ ~softwareFunctionCallingInAction
                          THEN Append(tailMessages, history) ELSE tailMessages
       /\ turnEvents' = Append(turnEvents,
              EventOf(IF keep THEN "injectHistory" ELSE "history", "assistant", "",
                      NoId, execCount))
    /\ cpc' = "awaitTools"
    /\ UNCHANGED <<chatConfig, callRoundsLeft, messages, system, waitList,
                   softwareFunctionCallingInAction, functionsAttached, retStream,
                   jsonParserStream, reply, chunkIdx, calls, sseEnded, execCount,
                   nStructured>>
    /\ UNCHANGED notChat

Settled(key) == \A i \in DOMAIN calls : calls[i].key = key => calls[i].st # "running"

\* a loop that would not wait for its tool calls
AllSettledNoWait(w) == TRUE

\* await Promise.all(waitList)
AllSettled(w) == \A j \in DOMAIN w : Settled(w[j])

\* a loop that would await the promises but keep them in waitList
TurnWaitKeepsList ==
    /\ cpc = "awaitTools"
    /\ AllSettled(waitList)
    /\ cpc' = "loop"
    /\ UNCHANGED <<chatConfig, callRoundsLeft, keepLooping, tailMessages,
                   messages, system, waitList, softwareFunctionCallingInAction,
                   functionsAttached, retStream, jsonParserStream, reply, chunkIdx,
                   calls, turnEvents, sseEnded, execCount, nStructured>>
    /\ UNCHANGED notChat

\* lines 886-887: await Promise.all(waitList); waitList.length = 0
TurnWait ==
    /\ cpc = "awaitTools"
    /\ AllSettled(waitList)
    /\ waitList' = <<>>
    /\ cpc' = "loop"
    /\ UNCHANGED <<chatConfig, callRoundsLeft, keepLooping, tailMessages,
                   messages, system, softwareFunctionCallingInAction, functionsAttached,
                   retStream, jsonParserStream, reply, chunkIdx, calls, turnEvents,
                   sseEnded, execCount, nStructured>>
    /\ UNCHANGED notChat

\* const functionsMixin = this.llmToolsRegistry.getPromptMixin(options): whether
\* the mixin has a functions list
MixinHasFunctions(o) == GetPromptMixin(o, NoWhitelist).given

\* lines 676-690, for a call with maxAdditionalTurns in turns
ChatStart(turns, flags) ==
    /\ maxAdditionalTurns \in turns
    /\ functionCallingSupported \in flags
    /\ systemSupported \in flags
    /\ functionsMixin \in {MixinHasFunctions(o) : o \in CallOptions}
    /\ clientFunctions \in flags
    /\ callerSystem \in flags
    /\ callRoundsLeft = maxAdditionalTurns
    /\ keepLooping = TRUE
    /\ tailMessages = <<>>
    /\ messages = <<>>
    /\ system = <<>>
    /\ waitList = <<>>
    /\ cpc = "loop"
    /\ softwareFunctionCallingInAction = FALSE
    /\ functionsAttached = FALSE
    /\ retStream = "none"
    /\ jsonParserStream = "none"
    /\ reply = NoReply
    /\ chunkIdx = 0
    /\ calls = <<>>
    /\ turnEvents = <<>>
    /\ sseEnded = FALSE
    /\ execCount = 0
    /\ nStructured = 0

-----------------------------------------------------------------------------
(* DataCrunchingHost *)

Days == 1..NDays
\* startOfToday: the first day outside the window
StartOfToday == NDays + 1
\* the days the record store holds records of: those of the window and today
StoredDays == Days \cup {StartOfToday}

NoFile == [exists |-> FALSE, lines |-> <<>>]
File(lines) == [exists |-> TRUE, lines |-> lines]

\* `${counter ? counter : '00000'}`
OffsetLabel(c) == IF c = 0 THEN "00000" ELSE ToString(c)

\* `${prefix}/r${rev}/${day}-${label}.jsonl`
FileNameOf(day, c) == <<day, OffsetLabel(c)>>

\* the offsets a file of the model can carry
Offsets == {k * BatchSize : k \in 0..(MaxRecords \div BatchSize + 1)}
FileNames == {FileNameOf(d, c) : d \in StoredDays, c \in Offsets}

\* a run that would not look for the target file
FileExistsNever(f) == FALSE

\* (await bucket.file(fileName).exists())[0]
FileExists(f) == bucket[f].exists

\* the createdAt ranks returned by where(day).orderBy('createdAt').offset(o).limit(B)
Query(day, o) ==
    LET last == Min(o + BatchSize, store[day])
    IN [i \in 1..Max(last - o, 0) |-> o + i]

\* a loop that would go through today as well
WhileCondThroughToday == theDay <= StartOfToday

\* while (theDay.isBefore(startOfToday))
WhileCond == theDay < StartOfToday

crunchConfig == <<store, preexisting>>
batchVars == <<fileName, records, nextRecord, task, written, flushed, occupancy,
               nextDrainDeferred, resolvedDeferreds, awaits, needDrain>>

NoBatch ==
    /\ fileName' = <<0, "">>
    /\ records' = <<>>
    /\ nextRecord' = 1
    /\ task' = <<>>
    /\ written' = <<>>
    /\ flushed' = 0
    /\ occupancy' = 0
    /\ nextDrainDeferred' = 0
    /\ resolvedDeferreds' = {0}
    /\ awaits' = <<>>
    /\ needDrain' = FALSE

\* lines 96-103: the target file exists, the offset moves on
IterSkip ==
    /\ crpc = "iter"
    /\ WhileCond
    /\ FileExists(FileNameOf(theDay, counter))
    /\ counter' = counter + BatchSize
    /\ UNCHANGED <<crunchConfig, bucket, run, theDay, crpc, batchVars,
                   parseFailures, yields, sse>>
    /\ UNCHANGED notCrunch

\* a generator that would stay on a day without records
IterNextDayStays ==
    /\ crpc = "iter"
    /\ WhileCond
    /\ ~FileExists(FileNameOf(theDay, counter))
    /\ Query(theDay, counter) = <<>>
    /\ counter' = 0
    /\ UNCHANGED <<crunchConfig, bucket, run, theDay, crpc, batchVars,
                   parseFailures, yields, sse>>
    /\ UNCHANGED notCrunch

\* lines 105-119: no record at this offset, the next day starts at offset 0
IterNextDay ==
    /\ crpc = "iter"
    /\ WhileCond
    /\ ~FileExists(FileNameOf(theDay, counter))
    /\ Query(theDay, counter) = <<>>
    /\ theDay' = theDay + 1
    /\ counter' = 0
    /\ UNCHANGED <<crunchConfig, bucket, run, crpc, batchVars, parseFailures,
                   yields, sse>>
    /\ UNCHANGED notCrunch

\* line 121, lines 75-77 and 126-130: the batch is yielded, announced, and
\* crunchCacheRecords makes its throttle, opens its temp file and makes a first
\* drain deferred, which it resolves at once
IterYield ==
    /\ crpc = "iter"
    /\ WhileCond
    /\ ~FileExists(FileNameOf(theDay, counter))
    /\ Query(theDay, counter) # <<>>
    /\ fileName' = FileNameOf(theDay, counter)
    /\ records' = Query(theDay, counter)
    /\ counter' = counter + BatchSize
    /\ nextRecord' = 1
    /\ task' = [i \in 1..Len(Query(theDay, counter)) |-> "todo"]
    /\ written' = <<>>
    /\ flushed' = 0
    /\ occupancy' = 0
    /\ nextDrainDeferred' = 0
    /\ resolvedDeferreds' = {0}
    /\ awaits' = [i \in 1..Len(Query(theDay, counter)) |-> 0]
    /\ needDrain' = FALSE
    /\ yields' = yields + 1
    /\ sse' = Append(sse, FileNameOf(theDay, counter))
    /\ crpc' = "crunch"
    /\ UNCHANGED <<crunchConfig, bucket, run, theDay, parseFailures>>
    /\ UNCHANGED notCrunch

\* the window is exhausted: sse.end({data: 'Crunching page cache done.'})
IterDone ==
    /\ crpc = "iter"
    /\ ~WhileCond
    /\ sse' = Append(sse, <<0, "done">>)
    /\ crpc' = "done"
    /\ UNCHANGED <<crunchConfig, bucket, run, theDay, counter, batchVars,
                   parseFailures, yields>>
    /\ UNCHANGED notCrunch

\* the record tasks that hold a permit: started and not yet through .finally()
InFlight ==
    Cardinality({i \in DOMAIN task : task[i] \in {"download", "format", "waiting"}})

\* the task awaits a promise that is resolved: its continuation is a job of the
\* microtask queue
Ready(i) == task[i] = "waiting" /\ awaits[i] \in resolvedDeferreds

\* callbacks of I/O (a download has arrived, a write has completed, 'drain') run
\* when the microtask queue is empty
NoJobReady == \A i \in DOMAIN task : ~Ready(i)

\* a loop that would start a task without a free permit
PermitFreeAlways == TRUE

\* await throttle.acquire() returns while fewer than 100 permits are taken
PermitFree == occupancy < ThrottleSize

\* lines 133-134: await throttle.acquire(); downloadFile(`snapshots/${record._id}`)
TaskStart ==
    /\ crpc = "crunch"
    /\ nextRecord <= Len(records)
    /\ PermitFree
    /\ occupancy' = occupancy + 1
    /\ task' = [task EXCEPT ![nextRecord] = "download"]
    /\ nextRecord' = nextRecord + 1
    /\ UNCHANGED <<crunchConfig, bucket, run, theDay, counter, crpc, fileName,
                   records, written, flushed, nextDrainDeferred, resolvedDeferreds,
                   awaits, needDrain, parseFailures, yields, sse>>
    /\ UNCHANGED notCrunch

\* lines 134-139: downloadFile resolves with the snapshot text, which parses, and
\* formatSnapshot is called
TaskDownloaded(i) ==
    /\ crpc = "crunch"
    /\ i \in DOMAIN task /\ task[i] = "download"
    /\ NoJobReady
    /\ task' = [task EXCEPT ![i] = "format"]
    /\ UNCHANGED <<crunchConfig, bucket, run, theDay, counter, crpc, fileName,
                   records, nextRecord, written, flushed, occupancy,
                   nextDrainDeferred, resolvedDeferreds, awaits, needDrain,
                   parseFailures, yields, sse>>
    /\ UNCHANGED notCrunch

\* lines 139-144: formatSnapshot has resolved; the task awaits the promise of the
\* deferred nextDrainDeferred refers to at this moment
TaskFormatted(i) ==
    /\ crpc = "crunch"
    /\ i \in DOMAIN task /\ task[i] = "format"
    /\ task' = [task EXCEPT ![i] = "waiting"]
    /\ awaits' = [awaits EXCEPT ![i] = nextDrainDeferred]
    /\ UNCHANGED <<crunchConfig, bucket, run, theDay, counter, crpc, fileName,
                   records, nextRecord, written, flushed, occupancy,
                   nextDrainDeferred, resolvedDeferreds, needDrain, parseFailures,
                   yields, sse>>
    /\ UNCHANGED notCrunch

\* lines 145-157 then release: the awaited promise is resolved, the line is
\* written; wr is what write() returns (whether the buffered bytes stay under
\* the stream's highWaterMark depends on the sizes of the lines). On false a
\* new deferred is made and a once('drain') listener is added
TaskWrite(i, wr) ==
    /\ crpc = "crunch"
    /\ i \in DOMAIN task /\ task[i] = "waiting"
    /\ awaits[i] \in resolvedDeferreds
    /\ task' = [task EXCEPT ![i] = "done"]
    /\ written' = Append(written, records[i])
    /\ nextDrainDeferred' = IF wr THEN nextDrainDeferred ELSE nextDrainDeferred + 1
    /\ needDrain' = (needDrain \/ ~wr)
    /\ occupancy' = occupancy - 1
    /\ UNCHANGED <<crunchConfig, bucket, run, theDay, counter, crpc, fileName,
                   records, nextRecord, flushed, resolvedDeferreds, awaits,
                   parseFailures, yields, sse>>
    /\ UNCHANGED notCrunch

\* a failure after which .finally() would not hand the permit back
TaskFailHoldsPermit(i) ==
    /\ crpc = "crunch"
    /\ i \in DOMAIN task /\ task[i] = "download"
    /\ NoJobReady
    /\ parseFailures < MaxParseFailures
    /\ parseFailures' = parseFailures + 1
    /\ task' = [task EXCEPT ![i] = "skipped"]
    /\ UNCHANGED <<crunchConfig, bucket, run, theDay, counter, crpc, fileName,
                   records, nextRecord, written, flushed, occupancy,
                   nextDrainDeferred, resolvedDeferreds, awaits, needDrain, yields,
                   sse>>
    /\ UNCHANGED notCrunch

\* lines 137, 158-160 then release: the download has arrived and JSON.parse throws
\* (or formatSnapshot rejects), the catch logs
\* it, no line is written and .finally() releases the permit
TaskFail(i) ==
    /\ crpc = "crunch"
    /\ i \in DOMAIN task /\ task[i] = "download"
    /\ NoJobReady
    /\ parseFailures < MaxParseFailures
    /\ parseFailures' = parseFailures + 1
    /\ task' = [task EXCEPT ![i] = "skipped"]
    /\ occupancy' = occupancy - 1
    /\ UNCHANGED <<crunchConfig, bucket, run, theDay, counter, crpc, fileName,
                   records, nextRecord, written, flushed, nextDrainDeferred,
                   resolvedDeferreds, awaits, needDrain, yields, sse>>
    /\ UNCHANGED notCrunch

\* the file system completes the write of one more line
WriteFlush ==
    /\ crpc \in {"crunch", "upload"}
    /\ flushed < Len(written)
    /\ NoJobReady
    /\ flushed' = flushed + 1
    /\ UNCHANGED <<crunchConfig, bucket, run, theDay, counter, crpc, fileName,
                   records, nextRecord, task, written, occupancy, nextDrainDeferred,
                   resolvedDeferreds, awaits, needDrain, parseFailures, yields,
                   sse>>
    /\ UNCHANGED notCrunch

\* lines 154-156: the stream's buffer has emptied after a write returned false
\* and 'drain' fires; every once('drain') listener added since the last 'drain'
\* resolves the deferred nextDrainDeferred refers to now
Drain ==
    /\ crpc = "crunch"
    /\ needDrain
    /\ flushed = Len(written)
    /\ NoJobReady
    /\ needDrain' = FALSE
    /\ resolvedDeferreds' = resolvedDeferreds \cup {nextDrainDeferred}
    /\ UNCHANGED <<crunchConfig, bucket, run, theDay, counter, crpc, fileName,
                   records, nextRecord, task, written, flushed, occupancy,
                   nextDrainDeferred, awaits, parseFailures, yields, sse>>
    /\ UNCHANGED notCrunch

\* lines 167-177 and line 78: the throttle has drained, fileWriteStream.end() is
\* called and, without waiting for 'finish', the temp file is opened for the upload
CrunchReturn ==
    /\ crpc = "crunch"
    /\ nextRecord > Len(records)
    \* await throttle.nextDrain()
    /\ occupancy = 0
    /\ crpc' = "upload"
    /\ UNCHANGED <<crunchConfig, bucket, run, theDay, counter, batchVars,
                   parseFailures, yields, sse>>
    /\ UNCHANGED notCrunch

\* bucket.file(fileName).save(createReadStream(path)): the object gets what the
\* read stream found in the temp file
Upload ==
    /\ crpc = "upload"
    /\ bucket' = [bucket EXCEPT ![fileName] = File(SubSeq(written, 1, flushed))]
    /\ crpc' = "iter"
    /\ NoBatch
    /\ UNCHANGED <<crunchConfig, run, theDay, counter, parseFailures, yields, sse>>
    /\ UNCHANGED notCrunch

\* a handler that would write the end sentinel after the error
UploadFailWritesEnd ==
    /\ crpc = "upload"
    /\ sse' = sse \o <<<<0, "error">>, <<0, "done">>>>
    /\ crpc' = "failed"
    /\ UNCHANGED <<crunchConfig, bucket, run, theDay, counter, batchVars,
                   parseFailures, yields>>
    /\ UNCHANGED notCrunch

\* lines 69-71 and 78: save() rejects, crunchPageCache throws and the handler given
\* to rpcReflect.catch ends the stream with sse.end({data: `Error: ...`})
UploadFail ==
    /\ crpc = "upload"
    /\ sse' = Append(sse, <<0, "error">>)
    /\ crpc' = "failed"
    /\ UNCHANGED <<crunchConfig, bucket, run, theDay, counter, batchVars,
                   parseFailures, yields>>
    /\ UNCHANGED notCrunch

\* the job is invoked again over the same window
RunAgain ==
    /\ crpc = "done"
    /\ run < MaxRuns
    /\ run' = run + 1
    /\ theDay' = 1
    /\ counter' = 0
    /\ parseFailures' = 0
    /\ yields' = 0
    /\ sse' = <<<<0, "start">>>>
    /\ crpc' = "iter"
    /\ UNCHANGED <<crunchConfig, bucket, batchVars>>
    /\ UNCHANGED notCrunch

\* a first invocation over a window holding at most n records a day, with the
\* archive files `before` already in the bucket
CrunchStart(n, before) ==
    /\ store \in [StoredDays -> 0..n]
    /\ preexisting \in before
    /\ bucket = [f \in FileNames |-> IF f \in preexisting THEN File(<<>>) ELSE NoFile]
    /\ run = 1
    /\ theDay = 1
    /\ counter = 0
    /\ crpc = "iter"
    /\ fileName = <<0, "">>
    /\ records = <<>>
    /\ nextRecord = 1
    /\ task = <<>>
    /\ written = <<>>
    /\ flushed = 0
    /\ occupancy = 0
    /\ nextDrainDeferred = 0
    /\ resolvedDeferreds = {0}
    /\ awaits = <<>>
    /\ needDrain = FALSE
    /\ parseFailures = 0
    /\ yields = 0
    /\ sse = <<<<0, "start">>>>

\* one call crunchCacheRecords(records) for the n records of the first batch of
\* day 1, as crunchPageCache makes it
DrainStart(sizes) ==
    /\ \E n \in sizes :
          /\ store = [d \in StoredDays |-> IF d = 1 THEN n ELSE 0]
          /\ records = [i \in 1..n |-> i]
          /\ task = [i \in 1..n |-> "todo"]
          /\ awaits = [i \in 1..n |-> 0]
    /\ preexisting = {}
    /\ bucket = [f \in FileNames |-> NoFile]
    /\ run = 1
    /\ theDay = 1
    /\ counter = BatchSize
    /\ crpc = "crunch"
    /\ fileName = FileNameOf(1, 0)
    /\ nextRecord = 1
    /\ written = <<>>
    /\ flushed = 0
    /\ occupancy = 0
    /\ nextDrainDeferred = 0
    /\ resolvedDeferreds = {0}
    /\ needDrain = FALSE
    /\ parseFailures = 0
    /\ yields = 1
    /\ sse = <<<<0, "start">>, FileNameOf(1, 0)>>

-----------------------------------------------------------------------------
(* PuppeteerControl.pagePool: the options the pool is constructed with *)

\* 2^30, the bytes of one GiB
GiB == Ki * Ki * Ki

NoOptions == [max |-> 0, min |-> 0]

FreeMems == 0..MaxFreeMem

\* the max the pool would get if free memory were counted in GiB
PoolMaxInGiB(free) == 1 + (free \div GiB)

\* max: 1 + Math.floor(os.freemem() / 1024 * 1024 * 1024): / and * associate to the
\* left, so the quotient free / 1024 is multiplied by 1024 twice
PoolMaxOf(free) == 1 + ((free * Ki * Ki) \div Ki)

\* the class field pagePool is initialised when PuppeteerControl is constructed
CreatePool ==
    /\ poolOptions = NoOptions
    /\ poolOptions' = [max |-> PoolMaxOf(freemem), min |-> PoolMin]
    /\ startFree' = freemem
    /\ UNCHANGED freemem
    /\ UNCHANGED notOptions

\* free memory changes while the process runs; nothing reads it again
MemoryChanges ==
    /\ \E f \in FreeMems \ {freemem} : freemem' = f
    /\ UNCHANGED <<startFree, poolOptions>>
    /\ UNCHANGED notOptions

OptionsStart(frees) ==
    /\ freemem \in frees
    /\ startFree = 0
    /\ poolOptions = NoOptions

-----------------------------------------------------------------------------
(* InterrogatorHost.expandMarkdown *)

\* the pieces the markdown inputs are put together from
Pieces ==
    {<<"a">>, <<"!", "[">>, <<"]", "(">>, <<")">>, <<"\n">>, <<":">>,
     <<"/", "/", "[">>}

RECURSIVE Flatten(_)
Flatten(ps) == IF ps = <<>> THEN <<>> ELSE Head(ps) \o Flatten(Tail(ps))

Inputs ==
    {Flatten(ps) : ps \in UNION {[1..n -> Pieces] : n \in 0..MaxPieces}}

\* PromptChunk: a string, a URL or a Buffer
Text(v) == [kind |-> "text", v |-> v]
Url(v) == [kind |-> "url", v |-> v]
Bytes(v) == [kind |-> "bytes", v |-> v]

\* `.` matches every character but a line terminator
NoNewline(s, a, b) == \A i \in a..b : s[i] # "\n"

\* for a match of /!\[(.*?)\]\((.*?)\)/ that starts at i: where `](` and `)` can lie
Closes(s, i) ==
    {jk \in (i + 2..Len(s)) \X (i + 4..Len(s)) :
        /\ jk[2] >= jk[1] + 2
        /\ s[jk[1]] = "]" /\ s[jk[1] + 1] = "("
        /\ s[jk[2]] = ")"
        /\ NoNewline(s, i + 2, jk[1] - 1)
        /\ NoNewline(s, jk[1] + 2, jk[2] - 1)}

Least(S) == CHOOSE x \in S : \A y \in S : x <= y

NoMatch == [found |-> FALSE, index |-> 0, lastIndex |-> 0, url |-> <<>>, raw |-> <<>>]

\* imageRegex.exec(input) with imageRegex.lastIndex = from: the leftmost match, both
\* groups as short as can be; index and lastIndex count characters from 0
Exec(s, from) ==
    LET starts == {i \in (from + 1)..(Len(s) - 1) :
                      s[i] = "!" /\ s[i + 1] = "[" /\ Closes(s, i) # {}}
    IN IF starts = {} THEN NoMatch
       ELSE LET i == Least(starts)
                j == Least({jk[1] : jk \in Closes(s, i)})
                k == Least({jk[2] : jk \in {c \in Closes(s, i) : c[1] = j}})
            IN [found |-> TRUE, index |-> i - 1, lastIndex |-> k,
                url |-> SubSeq(s, j + 2, k - 1), raw |-> SubSeq(s, i, k)]

\* length of the scheme of u, with its colon (0: u has no scheme); the letters of
\* the inputs are all "a"
SchemeLen(u) ==
    LET colons == {i \in 2..Len(u) : u[i] = ":" /\ \A h \in 1..(i - 1) : u[h] = "a"}
    IN IF colons = {} THEN 0 ELSE Least(colons)

\* new URL(imageUrl, 'file://') for the texts of Inputs: "invalid" when it throws
\* (an authority that opens a bracket it never closes), else the protocol and path
ParseUrl(u) ==
    LET n == SchemeLen(u)
        rest == SubSeq(u, n + 1, Len(u))
        authority == Len(rest) >= 2 /\ rest[1] = "/" /\ rest[2] = "/"
    IN IF authority /\ Len(rest) >= 3 /\ rest[3] = "["
       THEN [protocol |-> "invalid", pathname |-> <<>>]
       ELSE IF n > 0 THEN [protocol |-> "other", pathname |-> rest]
       ELSE IF authority THEN [protocol |-> "file", pathname |-> <<"/">>]
       ELSE IF rest # <<>> /\ rest[1] = "/" THEN [protocol |-> "file", pathname |-> rest]
       ELSE [protocol |-> "file", pathname |-> <<"/">> \o rest]

\* encodeURI: of the characters of Inputs it escapes the brackets
RECURSIVE EncodeURI(_)
EncodeURI(n) ==
    IF n = <<>> THEN <<>>
    ELSE (CASE Head(n) = "[" -> <<"%", "5", "B">>
            [] Head(n) = "]" -> <<"%", "5", "D">>
            [] OTHER -> <<Head(n)>>) \o EncodeURI(Tail(n))

\* decodeURI: the escapes of the brackets are put back
RECURSIVE DecodeURI(_)
DecodeURI(n) ==
    IF n = <<>> THEN <<>>
    ELSE IF Len(n) >= 3 /\ SubSeq(n, 1, 3) = <<"%", "5", "B">>
    THEN <<"[">> \o DecodeURI(SubSeq(n, 4, Len(n)))
    ELSE IF Len(n) >= 3 /\ SubSeq(n, 1, 3) = <<"%", "5", "D">>
    THEN <<"]">> \o DecodeURI(SubSeq(n, 4, Len(n)))
    ELSE <<Head(n)>> \o DecodeURI(Tail(n))

\* a try block that would not look into the files map
AssetWithoutFiles(match, fs) ==
    LET urlObject == ParseUrl(match.url)
    IN CASE urlObject.protocol = "invalid" -> <<Text(match.raw)>>
         [] urlObject.protocol = "file" -> <<>>
         [] OTHER -> <<Url(match.url)>>

\* what one match adds before its raw markdown (the try block)
Asset(match, fs) ==
    LET urlObject == ParseUrl(match.url)
        origFileName == Tail(urlObject.pathname)
    IN CASE urlObject.protocol = "invalid" -> <<Text(match.raw)>>
         [] urlObject.protocol = "file" ->
              IF {origFileName, DecodeURI(origFileName), EncodeURI(origFileName)}
                     \cap fs # {}
              THEN <<Bytes(origFileName)>> ELSE <<>>
         [] OTHER -> <<Url(match.url)>>

\* a rest that would lose its first character
RemainingOffByOne(s, lastIndex) ==
    IF lastIndex < Len(s) THEN <<Text(SubSeq(s, lastIndex + 2, Len(s)))>> ELSE <<>>

\* if (lastIndex < input.length) result.push(input.substring(lastIndex))
Remaining(s, lastIndex) ==
    IF lastIndex < Len(s) THEN <<Text(SubSeq(s, lastIndex + 1, Len(s)))>> ELSE <<>>

\* the while loop over the matches, from lastIndex on
RECURSIVE Walk(_, _, _, _)
Walk(s, fs, lastIndex, result) ==
    LET match == Exec(s, lastIndex) IN
    IF ~match.found THEN result \o Remaining(s, lastIndex)
    ELSE Walk(s, fs, match.lastIndex,
              result
                  \o (IF match.index > lastIndex
                      THEN <<Text(SubSeq(s, lastIndex + 1, match.index))>> ELSE <<>>)
                  \o Asset(match, fs)
                  \o <<Text(match.raw)>>)

\* "Merge consecutive string elements"; an empty tempString is not pushed
RECURSIVE Merge(_, _)
Merge(result, tempString) ==
    IF result = <<>>
    THEN (IF tempString # <<>> THEN <<Text(tempString)>> ELSE <<>>)
    ELSE LET item == Head(result) IN
         IF item.kind = "text" THEN Merge(Tail(result), tempString \o item.v)
         ELSE (IF tempString # <<>> THEN <<Text(tempString)>> ELSE <<>>)
                  \o <<item>> \o Merge(Tail(result), <<>>)

ExpandMarkdownOf(s, fs) == Merge(Walk(s, fs, 0, <<>>), <<>>)

\* await this.expandMarkdown(input, files)
ExpandMarkdown ==
    /\ ~expanded
    /\ mergedResult' = ExpandMarkdownOf(input, files)
    /\ expanded' = TRUE
    /\ UNCHANGED <<input, files>>
    /\ UNCHANGED notExpand

\* the files map: none, or one upload named "a"
FileSets == {{}, {<<"a">>}}

ExpandStart(inputs, fileSets) ==
    /\ input \in inputs
    /\ files \in fileSets
    /\ mergedResult = <<>>
    /\ expanded = FALSE

-----------------------------------------------------------------------------
(* InterrogatorHost.interrogate and chatWithReader: the @Param declarations *)

\* what the caller may send as url: nothing, a text that is no URL, or a URL, which
\* is known here by its protocol
UrlsSent == {"absent", "unparsable", "http:", "https:", "ftp:", "file:"}

\* a question, by its length and its number of GPT tokens (absent: not sent)
QuestionsSent ==
    {[given |-> FALSE, length |-> 0, tokens |-> 0]}
        \cup {[given |-> TRUE, length |-> l, tokens |-> t] :
                 l \in {0, 1, TokenLimit, TokenLimit + 1, 4 * TokenLimit},
                 t \in {0, 1, TokenLimit - 1, TokenLimit, TokenLimit + 1}}

\* a text has no more tokens than characters, and none only when it is empty
Countable(q) == q.tokens <= q.length /\ (q.tokens = 0 <=> q.length = 0)

\* maxAdditionalTurns as sent (absent: the default is taken)
TurnsSent ==
    {[given |-> FALSE, value |-> 0]}
        \cup {[given |-> TRUE, value |-> v] : v \in (0 - 2)..(TurnLimit + 2)}

\* a question that may be empty
QuestionValidateAllowsEmpty(txt) == txt.tokens <= TokenLimit

\* validate(url) { return url.protocol === 'http:' || url.protocol === 'https:' }
UrlValidate(url) == url = "http:" \/ url = "https:"

\* validate(txt) { return txt.length > 0 && countGPTToken(txt) <= 2048 }
QuestionValidate(txt) == txt.length > 0 /\ txt.tokens <= TokenLimit

\* validate(turns) { return turns >= 0 && turns <= 50 }
TurnsValidate(turns) == turns >= 0 /\ turns <= TurnLimit

\* the parameters of a method pass: a required one is there, a URL parses, and
\* validate returns true for what was sent
ParamsPass(name, ps) ==
    IF name = "interrogate"
    THEN /\ ps.url \notin {"absent", "unparsable"}
         /\ UrlValidate(ps.url)
         /\ ps.question.given
         /\ QuestionValidate(ps.question)
    ELSE ps.turns.given => TurnsValidate(ps.turns.value)

\* the RPC layer checks the parameters, then calls the method or rejects the call
RpcDispatch ==
    /\ rpcAt = "received"
    /\ rpcAt' = IF ParamsPass(rpcName, params) THEN "body" ELSE "rejected"
    /\ UNCHANGED <<rpcName, params, rpcLog>>
    /\ UNCHANGED notRpc

\* auth or the rate limit throws before anything else is done
RpcDenied ==
    /\ rpcAt = "body"
    /\ rpcAt' = "denied"
    /\ UNCHANGED <<rpcName, params, rpcLog>>
    /\ UNCHANGED notRpc

\* interrogate: await this.crawler.simpleCrawl(...)
InterrogateCrawl ==
    /\ rpcName = "interrogate"
    /\ rpcAt = "body"
    /\ rpcLog' = Append(rpcLog, "crawl")
    /\ rpcAt' = "crawled"
    /\ UNCHANGED <<rpcName, params>>
    /\ UNCHANGED notRpc

\* interrogate: await mdl.exec(promptChunks, inputOptions)
InterrogateExec ==
    /\ rpcName = "interrogate"
    /\ rpcAt = "crawled"
    /\ rpcLog' = Append(rpcLog, "exec")
    /\ rpcAt' = "returned"
    /\ UNCHANGED <<rpcName, params>>
    /\ UNCHANGED notRpc

\* chatWithReader: let callRoundsLeft = maxAdditionalTurns; the loop is entered
\* while callRoundsLeft > 0 and opens the first completion
ChatFirstExec ==
    /\ rpcName = "chatWithReader"
    /\ rpcAt = "body"
    /\ (IF params.turns.given THEN params.turns.value ELSE DefaultTurns) > 0
    /\ rpcLog' = Append(rpcLog, "exec")
    /\ rpcAt' = "looping"
    /\ UNCHANGED <<rpcName, params>>
    /\ UNCHANGED notRpc

NoParams ==
    [url |-> "absent", question |-> [given |-> FALSE, length |-> 0, tokens |-> 0],
     turns |-> [given |-> FALSE, value |-> 0]]

RpcStart(sent) ==
    /\ \E c \in sent : rpcName = c[1] /\ params = c[2]
    /\ rpcAt = "received"
    /\ rpcLog = <<>>

\* the calls a client may make
RpcCalls ==
    {<<"interrogate", [NoParams EXCEPT !.url = u, !.question = q]>> :
        u \in UrlsSent, q \in {x \in QuestionsSent : Countable(x)}}
      \cup {<<"chatWithReader", [NoParams EXCEPT !.turns = t]>> : t \in TurnsSent}

-----------------------------------------------------------------------------
(* chatWithReader: JSONParserStream piped into JSONAccumulation (one turn) *)

\* the pieces a reply reaches the parser in: braces and brackets, a key with its
\* colon, a quote, a character, a digit, a comma
JsonPieces == {"{", "}", "[", "]", "key", "quote", "a", "1", ","}

\* a JSON value is the set of its nodes: where the node lies (keys and indices from
\* the root), what it is, and the text of a string or number
Node(path, kind, text) == [path |-> path, kind |-> kind, text |-> text]

Frame(kind, path) == [kind |-> kind, path |-> path, idx |-> 0, key |-> ""]

ParserStart ==
    [stack |-> <<>>, mode |-> "between", cur |-> <<>>, started |-> FALSE,
     value |-> {}]

\* the text of the scalar being read grows by c
Grow(ps, c) ==
    [ps EXCEPT !.value =
        {IF n.path = ps.cur THEN [n EXCEPT !.text = @ \o <<c>>] ELSE n : n \in ps.value}]

\* the top frame with f as its new state
WithTop(ps, f) == [ps EXCEPT !.stack = SubSeq(@, 1, Len(@) - 1) \o <<f>>]

\* a second top-level object that would take the place of the first
AfterObjectRestart(ps, tok) ==
    IF tok = "{"
    THEN [ParserStart EXCEPT !.started = TRUE, !.stack = <<Frame("obj", <<>>)>>,
                             !.value = {Node(<<>>, "obj", <<>>)}]
    ELSE ps

\* expectContaminated: 'object': what follows the first top-level object is dropped
AfterObject(ps, tok) == ps

\* one piece outside a string or number
Between(ps, tok) ==
    IF ~ps.started
    THEN (IF tok = "{"
          THEN [ps EXCEPT !.started = TRUE, !.stack = <<Frame("obj", <<>>)>>,
                          !.value = {Node(<<>>, "obj", <<>>)}]
          ELSE ps)
    ELSE IF ps.stack = <<>> THEN AfterObject(ps, tok)
    ELSE
    LET top == ps.stack[Len(ps.stack)]
        slot == top.path \o <<IF top.kind = "arr" THEN ToString(top.idx) ELSE top.key>>
        open == /\ (top.kind = "arr" \/ top.key # "")
                /\ \A n \in ps.value : n.path # slot
        put(kind, text) == [ps EXCEPT !.value = @ \cup {Node(slot, kind, text)}]
    IN CASE tok = "{" /\ open ->
              [put("obj", <<>>) EXCEPT !.stack = @ \o <<Frame("obj", slot)>>]
         [] tok = "[" /\ open ->
              [put("arr", <<>>) EXCEPT !.stack = @ \o <<Frame("arr", slot)>>]
         [] tok = "quote" /\ open ->
              [put("str", <<>>) EXCEPT !.mode = "string", !.cur = slot]
         [] tok = "1" /\ open ->
              [put("num", <<"1">>) EXCEPT !.mode = "number", !.cur = slot]
         [] tok = "key" /\ top.kind = "obj" /\ top.key = "" ->
              WithTop(ps, [top EXCEPT !.key = "k" \o ToString(top.idx),
                                      !.idx = @ + 1])
         [] tok = "," /\ ~open ->
              WithTop(ps, IF top.kind = "arr" THEN [top EXCEPT !.idx = @ + 1]
                          ELSE [top EXCEPT !.key = ""])
         [] (tok = "}" /\ top.kind = "obj") \/ (tok = "]" /\ top.kind = "arr") ->
              [ps EXCEPT !.stack = SubSeq(@, 1, Len(@) - 1)]
         [] OTHER -> ps

\* the pair after one more piece of text
JsonStep(ps, tok) ==
    CASE ps.mode = "string" ->
           IF tok = "quote" THEN [ps EXCEPT !.mode = "between"]
           ELSE Grow(ps, IF tok = "key" THEN "k" ELSE tok)
      [] ps.mode = "number" ->
           IF tok = "1" THEN Grow(ps, tok)
           ELSE Between([ps EXCEPT !.mode = "between"], tok)
      [] OTHER -> Between(ps, tok)

\* retStream 'data' -> jsonParserStream.write(chunk); the accumulation emits its
\* value and the 'data' handler writes a `snapshot` event when it is an object
JsonWrite(tok) ==
    /\ chunksFed < MaxChunks
    /\ chunksFed' = chunksFed + 1
    /\ jsonParser' = JsonStep(jsonParser, tok)
    /\ snapshotData' =
           IF jsonParser'.value = {} THEN snapshotData
           ELSE <<snapshotData[2], jsonParser'.value>>
    /\ UNCHANGED notJson

JsonStart ==
    /\ jsonParser = ParserStart
    /\ chunksFed = 0
    /\ snapshotData = <<{}, {}>>

-----------------------------------------------------------------------------
(* Specifications *)

\* the parts a specification does not run stay as they start
NoRpc == RpcStart({<<"chatWithReader", NoParams>>})

OthersIdle ==
    /\ OptionsStart({0}) /\ ExpandStart({<<>>}, {{}}) /\ NoRpc /\ JsonStart
    /\ ToolsStart

InitPool ==
    /\ PoolStart(1..MaxPoolMax)
    /\ ChatStart({0}, {FALSE})
    /\ CrunchStart(0, {{}})
    /\ OthersIdle

NextPool ==
    \/ \E s \in Scrapers : ScrapAcquire(s)
    \/ \E p \in Pages : LaunchDone(p)
    \/ \E p \in Pages : LaunchFail(p)
    \/ \E p \in Pages : NewPageDone(p)
    \/ \E p \in Pages : NewPageFail(p)
    \/ \E g \in Browsers : BrowserDisconnected(g)
    \/ \E s \in Scrapers, k \in SnapshotKinds : ReportSnapshot(s, k)
    \/ \E s \in Scrapers : GotoResolve(s)
    \/ \E s \in Scrapers : GotoReject(s)
    \/ \E s \in Scrapers : RaceResume(s)
    \/ \E s \in Scrapers : RaceThrow(s)
    \/ \E s \in Scrapers : Screenshot(s)
    \/ \E s \in Scrapers : ScreenshotThrow(s)
    \/ \E s \in Scrapers, k \in SnapshotKinds : Evaluate(s, k)
    \/ \E s \in Scrapers : EvaluateThrow(s)
    \/ \E s \in Scrapers : ConsumerNext(s)
    \/ \E s \in Scrapers : ConsumerAbort(s)

SpecPool == InitPool /\ [][NextPool]_vars

\* every promise scrap awaits settles (page.goto has a 30 s timeout), and the
\* consumer is a for-await loop: it pulls the next item unless it returns
FairScrap ==
    \A s \in Scrapers :
        /\ WF_vars(GotoResolve(s))
        /\ WF_vars(RaceResume(s))
        /\ WF_vars(RaceThrow(s))
        /\ WF_vars(Screenshot(s))
        /\ WF_vars(\E k \in SnapshotKinds : Evaluate(s, k))
        /\ WF_vars(ConsumerNext(s))

\* the scraps of a pool of one page, run under these conditions
InitPoolFair ==
    /\ PoolStart({PoolMin})
    /\ ChatStart({0}, {FALSE})
    /\ CrunchStart(0, {{}})
    /\ OthersIdle

SpecPoolFair == InitPoolFair /\ [][NextPool]_vars /\ FairScrap

InitChat ==
    /\ ChatStart(0..MaxTurns, BOOLEAN)
    /\ PoolStart({1})
    /\ CrunchStart(0, {{}})
    /\ OthersIdle

NextChat ==
    \/ ModelExec
    \/ LoopExit
    \/ StreamData
    \/ StreamCall
    \/ \E i \in DOMAIN calls : ToolReturn(i)
    \/ \E i \in DOMAIN calls : ToolThrow(i)
    \/ StreamEnd
    \/ ParserFinal
    \/ \E flushNow \in BOOLEAN : StreamError(flushNow)
    \/ TurnEnd
    \/ TurnWait

SpecChat == InitChat /\ [][NextChat]_vars

\* archive files that may lie in the bucket before the first run
Preexisting == {{}, {FileNameOf(1, BatchSize)}}

InitCrunch ==
    /\ CrunchStart(MaxRecords, Preexisting)
    /\ PoolStart({1})
    /\ ChatStart({0}, {FALSE})
    /\ OthersIdle

NextCrunch ==
    \/ IterSkip
    \/ IterNextDay
    \/ IterYield
    \/ IterDone
    \/ TaskStart
    \/ \E i \in 1..BatchSize : TaskDownloaded(i)
    \/ \E i \in 1..BatchSize : TaskFormatted(i)
    \/ \E i \in 1..BatchSize, wr \in BOOLEAN : TaskWrite(i, wr)
    \/ \E i \in 1..BatchSize : TaskFail(i)
    \/ WriteFlush
    \/ Drain
    \/ CrunchReturn
    \/ Upload
    \/ UploadFail
    \/ RunAgain

SpecCrunch == InitCrunch /\ [][NextCrunch]_vars

\* every download, parse and format settles, a task whose awaited promise is
\* resolved goes on, the file system completes every write and the stream emits
\* 'drain' when its buffer has emptied, the loop over the records goes on while
\* permits are free, and the drained throttle lets the function return
FairCrunch ==
    /\ WF_vars(TaskStart)
    /\ WF_vars(\E i \in 1..MaxBatch : TaskDownloaded(i) \/ TaskFail(i))
    /\ WF_vars(\E i \in 1..MaxBatch : TaskFormatted(i))
    /\ WF_vars(\E i \in 1..MaxBatch, wr \in BOOLEAN : TaskWrite(i, wr))
    /\ WF_vars(WriteFlush)
    /\ WF_vars(Drain)
    /\ WF_vars(CrunchReturn)

\* the generator goes on whenever its consumer asks for the next batch, and an
\* upload that does not fail completes
FairIter ==
    /\ WF_vars(IterSkip \/ IterNextDay \/ IterYield \/ IterDone)
    /\ WF_vars(Upload)

SpecCrunchFair == InitCrunch /\ [][NextCrunch]_vars /\ FairCrunch /\ FairIter

InitDrain ==
    /\ DrainStart(1..MaxBatch)
    /\ PoolStart({1})
    /\ ChatStart({0}, {FALSE})
    /\ OthersIdle

NextDrain ==
    \/ TaskStart
    \/ \E i \in 1..MaxBatch : TaskDownloaded(i)
    \/ \E i \in 1..MaxBatch : TaskFormatted(i)
    \/ \E i \in 1..MaxBatch, wr \in BOOLEAN : TaskWrite(i, wr)
    \/ \E i \in 1..MaxBatch : TaskFail(i)
    \/ WriteFlush
    \/ Drain
    \/ CrunchReturn
    \/ Upload

SpecDrain == InitDrain /\ [][NextDrain]_vars

SpecDrainFair == InitDrain /\ [][NextDrain]_vars /\ FairCrunch

\* the parts run by SpecPool, SpecChat and SpecCrunch, idle
PartsIdle == PoolStart({PoolMin}) /\ ChatStart({0}, {FALSE}) /\ CrunchStart(0, {{}})

InitOptions ==
    /\ OptionsStart(FreeMems)
    /\ ExpandStart({<<>>}, {{}}) /\ NoRpc /\ JsonStart /\ ToolsStart /\ PartsIdle

NextOptions ==
    \/ CreatePool
    \/ MemoryChanges

SpecOptions == InitOptions /\ [][NextOptions]_vars

InitExpand ==
    /\ ExpandStart(Inputs, FileSets)
    /\ OptionsStart({0}) /\ NoRpc /\ JsonStart /\ ToolsStart /\ PartsIdle

NextExpand == ExpandMarkdown

SpecExpand == InitExpand /\ [][NextExpand]_vars

InitRpc ==
    /\ RpcStart(RpcCalls)
    /\ OptionsStart({0}) /\ ExpandStart({<<>>}, {{}}) /\ JsonStart /\ ToolsStart /\ PartsIdle

NextRpc ==
    \/ RpcDispatch
    \/ RpcDenied
    \/ InterrogateCrawl
    \/ InterrogateExec
    \/ ChatFirstExec

SpecRpc == InitRpc /\ [][NextRpc]_vars

InitJson ==
    /\ JsonStart
    /\ OptionsStart({0}) /\ ExpandStart({<<>>}, {{}}) /\ NoRpc /\ ToolsStart /\ PartsIdle

NextJson == \E tok \in JsonPieces : JsonWrite(tok)

SpecJson == InitJson /\ [][NextJson]_vars

InitTools ==
    /\ ToolsStart
    /\ OptionsStart({0}) /\ ExpandStart({<<>>}, {{}}) /\ NoRpc /\ JsonStart /\ PartsIdle

NextTools ==
    \/ \E wl \in Whitelists : DescriptorsCall(wl)
    \/ \E o \in CallOptions, wl \in Whitelists : PromptMixinCall(o, wl)
    \/ \E n \in ToolNames, a \in ToolArgs : ToolExec(n, a)

SpecTools == InitTools /\ [][NextTools]_vars

-----------------------------------------------------------------------------
(* Properties of the page pool and of scrap *)

Last(q) == q[Len(q)]

\* C1: under every interleaving of scrap calls the pages lent by the pool and not
\* yet destroyed never exceed the pool's max, and a suspended acquire resumes only
\* at a moment when fewer than max pages are out
C1_PoolBound ==
    /\ [](Cardinality(Loaned) <= poolMax)
    /\ [][\A s \in Scrapers :
            (pc[s] = "acquire" /\ pc'[s] # "acquire") => Cardinality(Loaned) < poolMax]_vars

\* max = 2, two pages are out and a third scrap waits in acquire
C1_Witness ==
    /\ poolMax = 2
    /\ Cardinality(Loaned) = 2
    /\ \E s \in Scrapers : pc[s] = "acquire"

\* C2: a scrap whose navigation resolved and that ran to its end has yielded at
\* least one item, its last item carries a non-null snapshot produced by the parse
\* made after the navigation settled, and no item follows a final one
C2_ScrapFinality ==
    \A s \in Scrapers :
        (pc[s] = "done" /\ gotoPromise[s] = "resolved") =>
            /\ yielded[s] # <<>>
            /\ Last(yielded[s]).src = "final"
            /\ Last(yielded[s]).kind = "object"
            /\ \A i \in 1..(Len(yielded[s]) - 1) : yielded[s][i].src # "final"

Ended == {"done", "returned"}

\* C11: every scrap that acquired a page eventually ends, however it ends; the step
\* that ends it takes its snapshot handler off and destroys the page it held, and a
\* lent page leaves the pool by that step only, hence exactly once
C11_ScrapReleases ==
    /\ \A s \in Scrapers : (page[s] # 0) ~> (pc[s] \in Ended)
    /\ [][\A s \in Scrapers :
            (pc[s] \notin Ended /\ pc'[s] \in Ended) =>
                /\ page[s] # 0
                /\ pageSt[page[s]] = "loaned"
                /\ pageSt'[page[s]] = "destroyed"
                /\ ~(HandlerInstalled(s))']_vars
    /\ [][\A p \in Pages :
            (pageSt[p] = "loaned" /\ pageSt'[p] # "loaned") =>
                /\ pageSt'[p] = "destroyed"
                /\ \E s \in Scrapers : page[s] = p /\ pc'[s] \in Ended]_vars
    /\ [][\A p \in Pages : pageSt[p] = "destroyed" => pageSt'[p] = "destroyed"]_vars

\* one scrap was stopped by its consumer after an item, another ran to its end, and
\* the pages of both are destroyed
C11_Witness ==
    /\ \E s \in Scrapers : pc[s] = "returned" /\ yielded[s] # <<>>
    /\ \E s \in Scrapers : pc[s] = "done"
    /\ Cardinality(PagesIn({"destroyed"})) >= 2

\* C12: a scrap whose navigation failed does not end as a sequence that completed
\* normally ("done" is the generator finishing without an error for its consumer;
\* catch (_err) { void 0 } leaves scrap no way to finish with one)
C12_NavigationFailureSurfaces ==
    \A s \in Scrapers : gotoPromise[s] = "rejected" => pc[s] # "done"

\* C13: a page is lent only while the browser it was created in is the current
\* one and is connected, so no page of a disconnected browser reaches a scrap
C13_NoPageOfDeadBrowser ==
    /\ [][(\E g \in Browsers : BrowserDisconnected(g)) => status' = "crippled"]_vars
    /\ [][\A p \in Pages :
            (pageSt[p] # "loaned" /\ pageSt'[p] = "loaned") =>
                /\ browserConnected'[pageGen'[p]]
                /\ status' = "ready"]_vars

\* C23: no page is held by two scraps at once, a page is lent only if it was never
\* lent before, and a page its scrap lets go of is destroyed and stays so
C23_PageExclusive ==
    /\ [](\A s, t \in Scrapers : (s # t /\ page[s] # 0) => page[s] # page[t])
    /\ [](\A s \in Scrapers : page[s] # 0 => pageSt[page[s]] = "loaned")
    /\ [](\A p \in Loaned : \E s \in Scrapers : page[s] = p)
    /\ [][\A p \in Pages :
            (pageSt[p] # "loaned" /\ pageSt'[p] = "loaned") =>
                /\ pageSt[p] \in {"ctx", "idle"}
                /\ Cardinality({s \in Scrapers : page[s] = 0 /\ page'[s] = p}) = 1]_vars
    /\ [][\A p \in Pages :
            (pageSt[p] # "idle" /\ pageSt'[p] = "idle") => pageSt[p] = "ctx"]_vars
    /\ [][\A p \in Pages :
            pageSt[p] \in {"loaned", "destroyed"} =>
                pageSt'[p] \in {pageSt[p], "destroyed"}]_vars

\* two scraps hold different pages while the page of a third, finished one is
\* destroyed
C23_Witness ==
    /\ \E s, t \in Scrapers : s # t /\ page[s] # 0 /\ page[t] # 0
    /\ \E s \in Scrapers : pc[s] \in Ended
    /\ PagesIn({"destroyed"}) # {}

Suspended(s) == pc[s] \in {"yield", "yieldFinal"}

\* C24: a scrap that holds a page finishes, given that what it awaits settles and
\* its consumer keeps asking; suspended at a yield it does nothing until the
\* consumer resumes or closes it, and once finished it yields nothing more
C24_ScrapFinite ==
    /\ \A s \in Scrapers : (pc[s] = "race") ~> (pc[s] \in Ended)
    /\ [][\A s \in Scrapers :
            (Suspended(s) /\ ~(ConsumerNext(s) \/ ConsumerAbort(s))) =>
                /\ pc'[s] = pc[s]
                /\ yielded'[s] = yielded[s]
                /\ page'[s] = page[s]]_vars
    /\ [][\A s \in Scrapers : pc[s] \in Ended =>
            pc'[s] = pc[s] /\ yielded'[s] = yielded[s]]_vars

\* a scrap that ran to its end after yielding an intermediate and a final item
C24_Witness ==
    \E s \in Scrapers :
        /\ pc[s] = "done"
        /\ Len(yielded[s]) >= 2
        /\ Last(yielded[s]).src = "final"

\* C29: at most one launch is in flight, at most one launched browser is live, and
\* every page lent out lives in the browser this.browser refers to
C29_SingleBrowser ==
    /\ Cardinality(PagesIn({"launch"})) <= 1
    /\ Cardinality({g \in Browsers : browserConnected[g]}) <= 1
    /\ \A p \in Loaned : pageGen[p] = browserGen

\* C30: a failed launch does not make the status ready and rejects the pending
\* acquire at the head of the queue; a failure inside a scrap destroys the page of
\* that scrap only
C30_LaunchFailurePropagates ==
    /\ [][(\E p \in Pages : LaunchFail(p)) =>
            /\ status' = "ready" => status = "ready"
            /\ waitingClients # <<>> =>
                  /\ pc'[Head(waitingClients)] # "acquire"
                  /\ page'[Head(waitingClients)] = 0
                  /\ \A i \in DOMAIN waitingClients' :
                        waitingClients'[i] # Head(waitingClients)]_vars
    /\ [][\A s \in Scrapers :
            (RaceThrow(s) \/ ScreenshotThrow(s) \/ EvaluateThrow(s)) =>
                \A p \in Loaned : p # page[s] => pageSt'[p] = "loaned"]_vars

\* C14: two consecutive items of a scrap never carry the same snapshot
C14_ConsecutiveDistinct ==
    \A s \in Scrapers : \A i \in 1..(Len(yielded[s]) - 1) :
        ~SameIdentity(yielded[s][i], yielded[s][i + 1])

\* the same, for the items that are not null
C14_ConsecutiveDistinctObjects ==
    \A s \in Scrapers : \A i \in 1..(Len(yielded[s]) - 1) :
        yielded[s][i].kind = "object" => yielded[s][i] # yielded[s][i + 1]

-----------------------------------------------------------------------------
(* Properties of chatWithReader *)

\* the events of the turn, without the plain "Calling tool ..." text writes
Events == SelectSeq(turnEvents, LAMBDA e : e.event # "text")

Count(evs, name) == Cardinality({i \in DOMAIN evs : evs[i].event = name})

StreamEvents == {"chunk", "n1", "n2", "snapshot"}

\* positions of the turn-level injectHistory/history (the assistant's own message)
TurnLevel(evs) ==
    {i \in DOMAIN evs : evs[i].event \in {"injectHistory", "history"}
                        /\ evs[i].role = "assistant"}

\* C3: one call opens at most maxAdditionalTurns completions and writes at most
\* maxAdditionalTurns `structured` events, at most one in each turn
C3_TurnCap ==
    /\ execCount <= maxAdditionalTurns
    /\ nStructured <= execCount
    /\ nStructured <= maxAdditionalTurns
    /\ Count(turnEvents, "structured") <= 1

\* both of two allowed turns were opened and each wrote a `structured` event
C3_Witness == maxAdditionalTurns = 2 /\ execCount = 2 /\ nStructured = 2

\* one step of the automaton of (chunk|n1|n2|snapshot)* structured? (call return)*
\* (injectHistory|history)
PatternStep(q, e) ==
    CASE q = "pre" /\ e \in StreamEvents -> "pre"
      [] q = "pre" /\ e = "structured" -> "mid"
      [] q \in {"pre", "mid"} /\ e = "call" -> "call"
      [] q \in {"pre", "mid"} /\ e \in {"injectHistory", "history"} -> "end"
      [] q = "call" /\ e = "return" -> "mid"
      [] OTHER -> "fail"

RECURSIVE PatternRun(_, _)
PatternRun(q, evs) ==
    IF evs = <<>> THEN q ELSE PatternRun(PatternStep(q, Head(evs).event), Tail(evs))

TurnComplete == execCount > 0 /\ cpc \in {"loop", "ended"}

\* C4 (as stated): the events of every completed turn match the pattern
\* (chunk|n1|n2|snapshot)* structured? (call return)* (injectHistory|history)
C4_EventPattern == TurnComplete => PatternRun("pre", Events) = "end"

\* C4 (amended): in each turn the chunk/n1/n2/snapshot events precede the single
\* `structured`; every `return` comes after the `call` of its tool call and is
\* directly followed by that call's injectHistory; the turn's own
\* injectHistory/history is written at most once, after the stream events,
\* `structured` and every `call`, and exactly once when the turn completes
C4_EventOrder ==
    LET ev == Events IN
    /\ Count(ev, "structured") <= 1
    /\ \A i, j \in DOMAIN ev :
           (ev[i].event \in StreamEvents /\ ev[j].event = "structured") => i < j
    /\ \A j \in DOMAIN ev :
           ev[j].event = "return" =>
               /\ \E i \in 1..(j - 1) :
                      ev[i].event = "call" /\ ev[i].name = ev[j].name /\ ev[i].id = ev[j].id
               /\ j < Len(ev)
               /\ ev[j + 1].event = "injectHistory"
               /\ ev[j + 1].role \in {"tool", "function"}
               /\ ev[j + 1].id = ev[j].id
    /\ Cardinality(TurnLevel(ev)) <= 1
    /\ \A t \in TurnLevel(ev) : \A i \in DOMAIN ev :
           ev[i].event \in StreamEvents \cup {"structured", "call"} => i < t
    /\ (execCount > 0 /\ cpc \in {"awaitTools", "loop", "ended"}) =>
           Cardinality(TurnLevel(ev)) = 1

\* a completed turn in which two calls were written back to back and a `return`
\* came after the turn's own injectHistory
C4_Witness ==
    LET ev == Events IN
    /\ TurnComplete
    /\ \E i \in DOMAIN ev : i < Len(ev) /\ ev[i].event = "call" /\ ev[i + 1].event = "call"
    /\ \E t \in TurnLevel(ev) : \E j \in DOMAIN ev : j > t /\ ev[j].event = "return"

\* maxAdditionalTurns = 1, the reply is the USE_TOOLS envelope naming browse/T1 and
\* the stream has finished
C7_Scenario ==
    /\ maxAdditionalTurns = 1
    /\ cpc = "ended"
    /\ reply = [kind |-> "envelope", tools |-> <<ToolBrowse>>]

\* C7 (as stated): the trace has one `structured`, one call(browse, T1), one
\* return(T1) and ends with `history`
C7_EnvelopeCalls ==
    C7_Scenario =>
        LET ev == Events IN
        /\ Count(ev, "structured") = 1
        /\ Cardinality({i \in DOMAIN ev : ev[i].event = "call" /\ ev[i].name = "browse"
                                          /\ ev[i].id = "T1"}) = 1
        /\ Cardinality({i \in DOMAIN ev : ev[i].event = "return" /\ ev[i].id = "T1"}) = 1
        /\ Last(ev).event = "history"

\* C7 (amended): with maxAdditionalTurns = 1 the only turn is the last round, in
\* which no functions are offered: the envelope is written as one `structured`
\* event, no `call` and no `return` is written, and the trace ends with `history`
C7_LastRoundNoTools ==
    C7_Scenario =>
        LET ev == Events IN
        /\ Count(ev, "structured") = 1
        /\ Count(ev, "call") = 0
        /\ Count(ev, "return") = 0
        /\ Last(ev).event = "history"
        /\ tailMessages = <<>>

\* the scenario, for a model without native function calling that supports a
\* system prompt
C7_Witness ==
    C7_Scenario /\ systemSupported /\ ~functionCallingSupported

\* C8: every event is written during the turn it belongs to, and when a completion
\* is open no tool call of an earlier turn is still running
C8_TurnIsolation ==
    /\ \A i \in DOMAIN turnEvents : turnEvents[i].of = turnEvents[i].turn
    /\ \A i \in DOMAIN calls : calls[i].st = "running" => calls[i].turn = execCount

\* the second turn has written events after a tool call of the first turn returned
C8_Witness ==
    /\ execCount = 2
    /\ turnEvents # <<>>
    /\ \E j \in DOMAIN tailMessages :
           /\ tailMessages[j].role = "tool"
           /\ tailMessages[j].content = "result"
           /\ tailMessages[j].turn = 1

\* C9: a failed tool call leaves its error string in the running history (role tool
\* with the call id, or role function with the name) and an injectHistory event,
\* it neither ends the loop nor writes `error`, and what earlier turns put into the
\* history is part of the messages of the open completion
C9_ToolFailureFedBack ==
    /\ \A i \in DOMAIN calls :
           calls[i].st = "failed" =>
               LET item == HistoryItem(calls[i].name, calls[i].id, "error", calls[i].turn)
               IN /\ \E j \in DOMAIN tailMessages : tailMessages[j] = item
                  /\ \E j \in DOMAIN turnEvents :
                         /\ turnEvents[j].event = "injectHistory"
                         /\ turnEvents[j].role = item.role
                         /\ turnEvents[j].id = item.id
                         /\ turnEvents[j].name = item.name
    /\ ((\E i \in DOMAIN calls : calls[i].st = "failed") /\ retStream # "errored") =>
           keepLooping /\ cpc # "thrown" /\ Count(turnEvents, "error") = 0
    /\ \A j \in DOMAIN tailMessages :
           tailMessages[j].turn < execCount =>
               \E k \in DOMAIN messages : messages[k] = tailMessages[j]

\* the second completion was given the error strings of a call with id whose
\* arguments did not parse and of a call without id whose handler threw
C9_Witness ==
    /\ execCount = 2
    /\ \E k \in DOMAIN messages :
           messages[k].content = "error" /\ messages[k].role = "function"
                /\ messages[k].name = "searchTheWeb"
    /\ \E k \in DOMAIN messages :
           messages[k].content = "error" /\ messages[k].role = "tool"
                /\ messages[k].id = "T2"

\* C10: nothing is written to the outbound stream after it was ended: no `return`,
\* injectHistory or history event follows the error frame
C10_ErrorFrameLast ==
    \A i \in DOMAIN turnEvents :
        turnEvents[i].event \in {"return", "injectHistory", "history"} =>
            ~turnEvents[i].late

-----------------------------------------------------------------------------
(* Properties of the cruncher *)

\* C5: a second run over the same window and an unchanged record store yields no
\* batch and leaves the bucket as it was, and no run ever rewrites a file that
\* already exists
C5_Idempotent ==
    /\ [](run > 1 => yields = 0)
    /\ [][run > 1 => bucket' = bucket]_vars
    /\ [][\A f \in FileNames : bucket[f].exists => bucket'[f] = bucket[f]]_vars

\* the second run has finished over a bucket holding at least two files made by
\* the first
C5_Witness ==
    /\ run = 2
    /\ crpc = "done"
    /\ Cardinality({f \in FileNames : bucket[f].exists /\ f \notin preexisting}) >= 2

Ceil(n, b) == (n + b - 1) \div b

Range(q) == {q[i] : i \in DOMAIN q}

\* C6: after a first run over an empty bucket in which every snapshot parsed, a day
\* of N records has exactly ceil(N/B) files, labelled 00000, B, 2B, ..., and file k
\* holds one line for each record ranked kB+1 .. min((k+1)B, N) and no other line
C6_DayFiles ==
    (crpc = "done" /\ run = 1 /\ preexisting = {} /\ parseFailures = 0) =>
        \A d \in Days :
            LET N == store[d]
                nFiles == Ceil(N, BatchSize)
            IN /\ {f \in FileNames : f[1] = d /\ bucket[f].exists}
                      = {FileNameOf(d, k * BatchSize) : k \in 0..(nFiles - 1)}
               /\ \A k \in 0..(nFiles - 1) :
                      LET lines == bucket[FileNameOf(d, k * BatchSize)].lines
                          first == k * BatchSize + 1
                          last == Min((k + 1) * BatchSize, N)
                      IN /\ Len(lines) = last - first + 1
                         /\ Range(lines) = first..last

-----------------------------------------------------------------------------
(* Properties of the pool options *)

\* C18: the pool is constructed with max = 1 + floor(free bytes / 2^30), for the
\* free memory measured at construction and whatever it becomes later, and min = 1
C18_PoolMaxInGiB ==
    poolOptions # NoOptions =>
        /\ poolOptions.max = PoolMaxInGiB(startFree)
        /\ poolOptions.min = 1

\* what holds instead: max is 1 + 1024 times the free bytes measured once
C18_PoolMaxAsComputed ==
    poolOptions # NoOptions =>
        /\ poolOptions.max = 1 + Ki * startFree
        /\ poolOptions.min = 1

-----------------------------------------------------------------------------
(* Properties of expandMarkdown *)

\* s holds an image token: `![`, later `](`, later `)`, with alt and url on one line
HasImageToken(s) ==
    \E i, j, k \in DOMAIN s :
        /\ i + 2 <= j /\ j + 2 <= k
        /\ s[i] = "!" /\ s[i + 1] = "["
        /\ s[j] = "]" /\ s[j + 1] = "("
        /\ s[k] = ")"
        /\ NoNewline(s, i + 2, j - 1)
        /\ NoNewline(s, j + 2, k - 1)

RECURSIVE TextOf(_)
TextOf(chunks) ==
    IF chunks = <<>> THEN <<>> ELSE Head(chunks).v \o TextOf(Tail(chunks))

\* C16: for an input without image token and no files, expandMarkdown returns text
\* chunks only and their concatenation is the input
C16_TextOnlyRoundTrip ==
    (expanded /\ files = {} /\ ~HasImageToken(input)) =>
        /\ \A i \in DOMAIN mergedResult : mergedResult[i].kind = "text"
        /\ TextOf(mergedResult) = input

\* the text `![` `](` a `)` broken by a line end between the brackets: no token
C16_Witness ==
    /\ expanded
    /\ files = {}
    /\ input = <<"!", "[", "\n", "]", "(", ")">>
    /\ mergedResult = <<Text(input)>>

\* the image tokens of s from position `from` on, left to right
RECURSIVE Tokens(_, _)
Tokens(s, from) ==
    LET match == Exec(s, from)
    IN IF ~match.found THEN <<>> ELSE <<match>> \o Tokens(s, match.lastIndex)

\* the file a file:// token names is in the files map under one of its three keys
InFiles(name, fs) == \E key \in {name, DecodeURI(name), EncodeURI(name)} : key \in fs

\* the asset a token resolves to: a URL, the bytes of an uploaded file, or none
Resolved(match, fs) ==
    LET urlObject == ParseUrl(match.url)
    IN IF urlObject.protocol = "other" THEN <<Url(match.url)>>
       ELSE IF urlObject.protocol = "file" /\ InFiles(Tail(urlObject.pathname), fs)
       THEN <<Bytes(Tail(urlObject.pathname))>>
       ELSE <<>>

RECURSIVE Assets(_, _)
Assets(tokens, fs) ==
    IF tokens = <<>> THEN <<>>
    ELSE Resolved(Head(tokens), fs) \o Assets(Tail(tokens), fs)

\* the tokens that resolve to an asset, in order
WithAsset(tokens, fs) == SelectSeq(tokens, LAMBDA match : Resolved(match, fs) # <<>>)

IsText(chunk) == chunk.kind = "text"

-----------------------------------------------------------------------------
(* Properties of the request parameters *)

\* what the interface asks of the parameters of a call
Acceptable ==
    IF rpcName = "interrogate"
    THEN /\ params.url \in {"http:", "https:"}
         /\ params.question.given
         /\ params.question.length >= 1
         /\ params.question.tokens <= 2048
    ELSE params.turns.given => params.turns.value \in 0..50

\* C17: a call whose parameters are not acceptable (interrogate: url of scheme http
\* or https, question non-empty with at most 2048 tokens; chatWithReader:
\* maxAdditionalTurns in 0..50) is rejected once dispatched, and no crawl and no
\* model call is made for it
C17_BadParamsRejected ==
    ~Acceptable =>
        /\ rpcAt \in {"received", "rejected"}
        /\ rpcLog = <<>>

\* an interrogate call for an https url whose question has 2049 tokens was rejected
C17_Witness ==
    /\ rpcAt = "rejected"
    /\ rpcName = "interrogate"
    /\ params.url = "https:"
    /\ params.question.tokens = TokenLimit + 1
    /\ rpcLog = <<>>

-----------------------------------------------------------------------------
(* Properties of the incremental JSON stream *)

IsPrefix(a, b) == Len(a) <= Len(b) /\ SubSeq(b, 1, Len(a)) = a

\* later extends earlier: every key, item and scalar of earlier is still there, of
\* the same kind, and the text of a string or number has only grown at its end
Extends(later, earlier) ==
    \A n \in earlier : \E x \in later :
        x.path = n.path /\ x.kind = n.kind /\ IsPrefix(n.text, x.text)

-----------------------------------------------------------------------------
(* Properties of crunchCacheRecords and iterPageCacheCrunching *)

\* the records whose line was written, in the order of the records
Formatted == {i \in DOMAIN task : task[i] = "done"}

C19_Witness ==
    /\ crpc = "upload"
    /\ Len(records) = 2
    /\ task = <<"skipped", "done">>
    /\ written = <<records[2]>>

\* C20: every batch yielded belongs to a day of the window, the days are visited
\* from the first of the window upwards one by one up to, not including, today,
\* the offsets of a day go up from 0 in steps of the batch size, and no file is
\* produced for today or a later day
C20_WindowInOrder ==
    /\ theDay = 1 /\ counter = 0
    /\ [][yields' = yields + 1 =>
             /\ theDay \in Days
             /\ fileName' = FileNameOf(theDay, counter)
             /\ counter % BatchSize = 0
             /\ theDay' = theDay]_vars
    /\ [][theDay' # theDay =>
             /\ counter' = 0
             /\ theDay' = theDay + 1 \/ (run' = run + 1 /\ theDay' = 1)]_vars
    /\ [][counter' # counter => counter' = counter + BatchSize \/ counter' = 0]_vars
    /\ [](crpc = "done" => theDay = StartOfToday)
    /\ [](\A f \in FileNames : bucket[f].exists => f[1] \in Days)

\* a finished run that yielded two batches of the first day and one of the second
\* while records of today were in the store
C20_Witness ==
    /\ crpc = "done"
    /\ yields = 3
    /\ store[StartOfToday] > 0
    /\ bucket[FileNameOf(1, 0)].exists /\ bucket[FileNameOf(1, BatchSize)].exists
    /\ bucket[FileNameOf(2, 0)].exists
    /\ preexisting = {}

-----------------------------------------------------------------------------
(* Properties of the tool registry *)

LogOf(op) == {toolsLog[i] : i \in {j \in DOMAIN toolsLog : toolsLog[j].op = op}}

NamesOf(descriptors) == {descriptors[i].name : i \in DOMAIN descriptors}

\* what a dispatched call returns, by the kind of its value
Dispatches(name, kind) ==
    \A e \in LogOf("exec") :
        (e.name = name /\ e.arg # "") => ~e.ret.threw /\ e.ret.kind = kind

PinOf(o) == IF o.function_call.kind = "pin" THEN o.function_call.name ELSE ""

-----------------------------------------------------------------------------
(* chatWithReader: tools offered to the model *)

\* the registry has tools to describe
RegistryHasTools == GetFunctionsCallingDescriptors(NoWhitelist) # <<>>

\* a turn is running or waiting for its tools; callRoundsLeft was one more when
\* the turn started
InTurn == cpc \in {"stream", "awaitTools"}

\* C25: in every turn the tool descriptors are attached to the completion options
\* exactly when the registry has tools and more than one round was left at the
\* start of the turn, and software function calling is on exactly when, in
\* addition, the model has no native function calling and supports a system
\* prompt
C25_DescriptorsAttached ==
    InTurn =>
        /\ functionsAttached = (RegistryHasTools /\ callRoundsLeft + 1 > 1)
        /\ softwareFunctionCallingInAction =
               (functionsAttached /\ ~functionCallingSupported /\ systemSupported)

\* a turn has run to its end: its stream closed and its tool calls were awaited
TurnOver == cpc \in {"loop", "ended"} /\ execCount >= 1

\* the event at j is written for the same tool call as the `call` event e
SameCall(e, j) ==
    /\ turnEvents[j].name = e.name
    /\ turnEvents[j].id = e.id
    /\ turnEvents[j].of = e.of

\* the event at j is the injectHistory of the history item of the call of e
HistoryOf(e, j) ==
    /\ j \in DOMAIN turnEvents
    /\ turnEvents[j].event = "injectHistory"
    /\ turnEvents[j].id = e.id
    /\ turnEvents[j].of = e.of
    /\ turnEvents[j].role = (IF e.id # NoId THEN "tool" ELSE "function")

\* C26: once a turn is over, every `call` event has been followed by exactly one
\* `return` event with the same name and id and then by the injectHistory of that
\* call's history item, no `return` was written without an earlier `call` with
\* the same id, and every entry of the tool list the model asked for has its
\* `call` event
C26_CallReturnInject ==
    TurnOver =>
        /\ \A i \in DOMAIN turnEvents :
               turnEvents[i].event = "call" =>
                   \E j \in DOMAIN turnEvents :
                       /\ j > i
                       /\ {k \in DOMAIN turnEvents :
                              turnEvents[k].event = "return" /\ SameCall(turnEvents[i], k)}
                              = {j}
                       /\ HistoryOf(turnEvents[i], j + 1)
        /\ \A j \in DOMAIN turnEvents :
               turnEvents[j].event = "return" =>
                   \E i \in 1..(j - 1) :
                       turnEvents[i].event = "call" /\ turnEvents[i].id = turnEvents[j].id
        /\ reply.kind \in {"native", "nativeObject"} =>
               Count(turnEvents, "call") = Len(reply.tools)

-----------------------------------------------------------------------------
(* chatWithReader: the end of a turn *)

\* a tool call was dispatched in the turn that runs or has just run
Dispatched == \E i \in DOMAIN calls : calls[i].turn = execCount

\* the turn's own history event, written when its streams have closed
OwnEvents == {i \in DOMAIN turnEvents : turnEvents[i].role = "assistant"}

\* the turn has written its closing event and no stream error has occurred
TurnClosed == cpc \in {"awaitTools", "loop", "ended"} /\ execCount >= 1

\* the step taken from the loop head after a turn: the next completion is opened
\* exactly when the turn dispatched a tool call and a round is left
NextTurnIffDispatched ==
    (cpc = "loop" /\ execCount >= 1) =>
        ((cpc' = "stream") <=> (Dispatched /\ callRoundsLeft > 0))

\* C27: after a turn that ends without a stream error another turn is opened if
\* and only if a tool call was dispatched in that turn and a round is left; the
\* turn writes `history` when it dispatched no tool call and injectHistory when
\* it did, whatever earlier turns have called
C27_LoopIffToolCalled ==
    /\ [](TurnClosed =>
             \E i \in OwnEvents :
                 /\ OwnEvents = {i}
                 /\ turnEvents[i].event =
                        (IF Dispatched THEN "injectHistory" ELSE "history"))
    /\ [][NextTurnIffDispatched]_vars

\* a second turn, opened because the first called tools, called none itself,
\* wrote `history` and was the last
C27_Witness ==
    /\ cpc = "ended"
    /\ execCount = 2
    /\ ~Dispatched
    /\ Count(turnEvents, "history") = 1

\* C28: a call that has ended without a stream error has written exactly one
\* `history` event, in its last turn and before the outbound stream was ended
\* (a turn that is followed by another writes injectHistory, see C27)
C28_OneHistory ==
    cpc = "ended" =>
        \E i \in DOMAIN turnEvents :
            /\ {k \in DOMAIN turnEvents : turnEvents[k].event = "history"} = {i}
            /\ turnEvents[i].turn = execCount
            /\ ~turnEvents[i].late

-----------------------------------------------------------------------------
(* Properties of the throttle and of the drain deferred of crunchCacheRecords *)

\* C31: at most as many record tasks as the throttle has permits are in flight;
\* the permits taken are those of the tasks in flight, so that every task hands
\* its permit back once, whether it wrote its line or failed; and the function
\* has returned only when every task of the batch has handed its permit back
C31_ThrottleBound ==
    /\ InFlight <= ThrottleSize
    /\ occupancy = InFlight
    /\ crpc = "upload" =>
           /\ occupancy = 0
           /\ \A i \in DOMAIN records : task[i] \in {"done", "skipped"}

\* every permit is taken while a record of the batch has not been started
C31_Witness ==
    /\ crpc = "crunch"
    /\ InFlight = ThrottleSize
    /\ occupancy = ThrottleSize
    /\ nextRecord <= Len(records)

\* C32: from a write that returned false until 'drain' has fired, no record task
\* writes another line
C32_NoWriteBeforeDrain == [][needDrain => written' = written]_vars

\* C39: every record task that awaits a drain deferred gets to go on, and every
\* call of crunchCacheRecords returns, with no permit taken
C39_CrunchReturns ==
    /\ \A i \in 1..MaxBatch :
           (i \in DOMAIN task /\ task[i] = "waiting")
               ~> (i \in DOMAIN task /\ task[i] = "done")
    /\ (crpc = "crunch") ~> (crpc = "upload" /\ occupancy = 0)

-----------------------------------------------------------------------------
(* Properties of crunchPageCache *)

\* C33: when the upload reads the temp file, every line written for the batch has
\* reached the file, and the object uploaded holds exactly the lines written
C33_UploadAfterClose ==
    [][(crpc = "upload" /\ crpc' = "iter") =>
           /\ flushed = Len(written)
           /\ bucket'[fileName] = File(written)]_vars

\* the events of the progress stream that name a file
DataEvents == SelectSeq(sse, LAMBDA e : e[1] # 0)

\* how often the sentinel or error event e occurs in the progress stream
Occurs(e) == Cardinality({i \in DOMAIN sse : sse[i] = <<0, e>>})

\* file names in the order in which the generator yields them: by day, then by
\* offset
Before(f, g) ==
    LET off(x) == CHOOSE c \in Offsets : OffsetLabel(c) = x[2]
    IN f[1] < g[1] \/ (f[1] = g[1] /\ off(f) < off(g))

\* C34: the progress stream starts with the start sentinel, then holds one data
\* event for each file name yielded, in the order of the yields, each written
\* before its batch is crunched and uploaded; the end sentinel is written once,
\* last, after the last upload of a run that did not fail; a failed run ends
\* with a single error event and has no end sentinel
C34_ProgressStream ==
    /\ [](/\ sse[1] = <<0, "start">> /\ Occurs("start") = 1
          /\ Len(DataEvents) = yields
          /\ \A i \in 2..(Len(sse) - 1) : sse[i] \in FileNames
          /\ \A i, j \in DOMAIN DataEvents : i < j => Before(DataEvents[i], DataEvents[j])
          /\ crpc \in {"crunch", "upload"} => sse[Len(sse)] = fileName
          /\ (Occurs("done") = 1 /\ sse[Len(sse)] = <<0, "done">>) <=> crpc = "done"
          /\ Occurs("done") = 0 <=> crpc # "done"
          /\ (Occurs("error") = 1 /\ sse[Len(sse)] = <<0, "error">>) <=> crpc = "failed"
          /\ Occurs("error") = 0 <=> crpc # "failed")
    /\ [][\A f \in FileNames :
              bucket'[f] # bucket[f] => \E i \in DOMAIN sse : sse[i] = f]_vars
    /\ [][crpc' = "done" => crpc = "iter" /\ records = <<>>]_vars

\* the upload of the second batch of a run failed
C34_Witness ==
    /\ crpc = "failed"
    /\ yields = 2
    /\ Len(sse) = 4

\* C40: every pass of the loop of iterPageCacheCrunching moves the offset past a
\* file that exists, yields a batch that is not empty, or goes to the next day
\* at offset 0; and a generator whose consumer comes back for the next batch
\* every time reaches today and ends
C40_IterTerminates ==
    /\ [][(crpc = "iter" /\ WhileCond) =>
             \/ /\ FileExists(FileNameOf(theDay, counter))
                /\ theDay' = theDay /\ counter' = counter + BatchSize
                /\ crpc' = "iter"
             \/ /\ crpc' = "crunch" /\ records' # <<>>
                /\ theDay' = theDay /\ counter' = counter + BatchSize
             \/ /\ Query(theDay, counter) = <<>>
                /\ theDay' = theDay + 1 /\ counter' = 0
                /\ crpc' = "iter"]_vars
    /\ []<>(crpc = "iter") => <>(crpc = "done" /\ theDay = StartOfToday)

\* a run has ended over a window with a day without records and with an archive
\* file that lay at an offset beyond the record count of its day
C40_Witness ==
    /\ crpc = "done"
    /\ run = 1
    /\ store[2] = 0
    /\ store[1] = 1
    /\ preexisting = {FileNameOf(1, BatchSize)}


-----------------------------------------------------------------------------
(* chatWithReader: what each turn sends to the model *)

\* C36: the messages of every completion are the running history as it stands
\* when the turn opens (after the trimmed base messages, which are computed once),
\* the running history only grows at its end, so the messages of a turn are a
\* prefix of those of the next, and no turn changes the functions the caller sent
C36_MessagesGrow ==
    [][/\ IsPrefix(tailMessages, tailMessages')
       /\ (execCount' # execCount =>
               messages' = tailMessages /\ IsPrefix(messages, messages'))
       /\ clientFunctions' = clientFunctions]_vars

\* a second turn sends the assistant message and the tool result of the first
C36_Witness ==
    /\ cpc = "stream"
    /\ execCount = 2
    /\ Len(messages) >= 2
    /\ messages[1].turn = 1

\* occurrences of the teaching prompt in the system prompt sent
TeachingCount == Cardinality({i \in DOMAIN system : system[i] = "teaching"})

\* C37: in a turn with software function calling the teaching prompt occurs
\* exactly once in the system prompt sent, and in a turn with no tool descriptors
\* attached the system prompt sent is the caller's own text and nothing else
C37_SystemPrompt ==
    InTurn =>
        /\ softwareFunctionCallingInAction => TeachingCount = 1
        /\ ~functionsAttached =>
               system = (IF callerSystem THEN <<"own">> ELSE <<>>)

\* results of tool calls in the running history
Results == {i \in DOMAIN tailMessages : tailMessages[i].role \in {"tool", "function"}}

\* C38: once a turn has closed, the result of every tool call stands in the
\* running history after the assistant message of the turn that issued the call
C38_ResultAfterAssistant ==
    TurnClosed =>
        \A i \in Results :
            \E j \in 1..(i - 1) :
                /\ tailMessages[j].role = "assistant"
                /\ tailMessages[j].turn = tailMessages[i].turn

====
